---------------------------- MODULE Spec2Model ----------------------------
(***************************************************************************)
(* Feature / Gate / Binding pipeline of manual-input: Gate.getState, the    *)
(* Event, Delta and Absolute bindings' update, the Position, Movement and  *)
(* Gesture features' getValue, normalize_value, the hand smoother, the     *)
(* builders and the Binding Index, the read-only probes, and a gate whose   *)
(* feature is missing or raises.                                           *)
(*                                                                         *)
(* Feature values and thresholds are fractions in the source (0.5, 0.45);  *)
(* here they are integers in hundredths (50, 45), which keeps every        *)
(* comparison the code makes.  Times are integer milliseconds, as          *)
(* int(time.time() * 1000) is.  "No value" (Python None) is the empty      *)
(* sequence, a value v is <<v>>.                                           *)
(***************************************************************************)
EXTENDS Integers, Sequences, FiniteSets, TLC

VARIABLES
    clock,        \* the wall clock, int(time.time() * 1000)
    frames,       \* evaluations made so far (bounds the run)
    gcfg,         \* Gate: op, trigger_pct, release_pct, refractory_ms, lost_hand_policy
    gate,         \* Gate: state, t_last, _last_value, _last_tracked, _last_time
    gpre,         \* history: the gate's state and t_last, last_flip and ghist, when the
                  \* latest getState began
    gret,         \* the value the latest getState returned
    run_changes,  \* history: times of the state changes made in the current
                  \* unbroken run of tracked evaluations
    lost_run,     \* history: length of the current run of untracked evaluations
    last_flip,    \* history: time of the latest flip made by policy "toggle", if any
    ghist,        \* history: the time of the latest state change made by a
                  \* tracked evaluation or a "toggle" flip, and, if the latest
                  \* evaluation changed the state under policy "release" or
                  \* "true", its time
    bcfg,         \* EventBinding: _custom_trigger_pct, _custom_release_pct,
                  \* _custom_refractory_ms, _custom_op, whether it has a gate, its actuator
    binding,      \* EventBinding: prev_state, _last_transition_time, _last_state,
                  \* _last_value, _last_time
    bpre,         \* history: prev_state and _last_transition_time when the latest
                  \* update began
    upd,          \* the latest update's locals: now_ms, gate_state
    calls,        \* the calls the latest update made on its actuator (event types)
    fired,        \* the leaf actuators whose trigger() ran in the latest update
    bhist,        \* history: the latest event the binding sent to its actuator
                  \* before the latest update, and the time of its latest
                  \* activation before the latest update
    dcfg,         \* Delta/Abs binding: its kind, whether it has a gate, scale,
                  \* deadzone, min_value, max_value
    dbind,        \* Delta/Abs binding: _last_state, _last_value
    dupd,         \* the latest Delta/Abs update: what its gate returned (no value
                  \* if it has none), what its feature holds, whether it raised
    dcalls,       \* the values the latest Delta/Abs update passed to actuator.trigger
    fcfg,         \* Feature: its class, the hand string FeatureIndex built it
                  \* with, axis, axis_vec, range_norm
    feat,         \* Feature: prev_palm, prev_hand, _last_value, _last_raw_value
    fpre,         \* history: the feature when the latest getValue began
    fframe,       \* the current frame: the snapshot pair the tracker produced for
                  \* it and the number of getValue calls made in it
    flast,        \* history: the snapshot pair of the frame before
    fcall,        \* the latest getValue call: what it returned, and what the call
                  \* before it returned
    ncfg,         \* normalize_value: the feature's min and max, and the spacing
                  \* of the raw values it is given
    ncall,        \* the latest normalize_value call: raw, the value returned,
                  \* and the call before it
    scfg,         \* HandSmootherIndex: smoothing_time
    smoothers,    \* HandSmootherIndex.smoothers: label -> _window of its HandSmoother
    solo,         \* one HandSmoother per label, used on its own: its _window
    spre,         \* history: smoothers and solo when the latest call began
    scall,        \* the latest smoother call: its operation, label, snapshot,
                  \* timestamp and the value returned
    gfeat,        \* the gate's GestureFeature: _last_value, _last_raw_value
    pact,         \* the binding's DeltaActuator: _last_trigger_time, _last_value
    probe,        \* the latest probe call: which one, and the dictionary returned
    shadow,       \* the same features, gate, binding and actuator given the same
                  \* frames at the same times and never probed
    steady,       \* history: in every frame so far the right hand was there with
                  \* gesture-closed 0.2 and its palm center 0.01 right of the
                  \* frame before
    icfg,         \* config['bindings']: the binding declarations, in order
    index,        \* the BindingIndex: whether its construction was run and
                  \* raised, and self.bindings
    iframe,       \* the latest BindingIndex.update: the snapshot pair, the
                  \* bindings evaluated with the pair each was given, the
                  \* actuator calls made, and whether it raised
    lcfg,         \* a gate's input_feature (None if its name is not registered)
                  \* and the class of the binding behind the gate
    lcall         \* the latest getState of that gate: what its feature did,
                  \* the gate at its entry, whether it raised, and whether the
                  \* feature has yielded no value so far

gvars == <<gcfg, gate, gpre, gret, run_changes, lost_run, last_flip, ghist>>

bvars == <<bcfg, binding, bpre, upd, calls, fired, bhist>>

dvars == <<dcfg, dbind, dupd, dcalls>>

fvars == <<fcfg, feat, fpre, fframe, flast, fcall>>

nvars == <<ncfg, ncall>>

svars == <<scfg, smoothers, solo, spre, scall>>

pvars == <<gfeat, pact, probe, shadow, steady>>

ivars == <<icfg, index, iframe>>

lvars == <<lcfg, lcall>>

xvars == <<nvars, svars, pvars, ivars, lvars>>

vars == <<clock, frames, gvars, bvars, dvars, fvars, xvars>>

-----------------------------------------------------------------------------
(* Bounds and program constants *)

\* The clock when the program starts: epoch milliseconds, far above any
\* refractory time, so that the initial t_last = 0 never blocks a transition.
StartMs == 1000

\* Evaluations per run.
MaxEvals == 4

\* GateBuilder.build defaults.
GateDefaultTriggerPct == 50
GateDefaultReleasePct == 45
GateDefaultRefractoryMs == 120

\* EventBinding.update defaults.
EventDefaultTriggerPct == 50
EventDefaultReleasePct == 45
EventDefaultRefractoryMs == 120

\* The shipped left_click binding.
ClickTriggerPct == 80
ClickReleasePct == 60
ClickRefractoryMs == 250

\* Updates of a binding per run.
MaxUpdates == 4

\* BindingBuilder.build defaults for Delta and Absolute bindings.
DeltaDefaultScale == 1
DeltaDefaultDeadzone == 0
AbsDefaultMin == 0
AbsDefaultMax == 1

\* The shipped scroll_y binding.
ScrollSensitivity == -180

\* Updates of a Delta or Absolute binding per run.
MaxDeltaUpdates == 2

\* MovementFeature.__init__ default of range_norm, 20.0 screen units.
RangeNormDefault == 2000

\* normalize_value on its own is given values in units of 1e-7, in which its
\* 1e-6 is 10 and the default max of 1.0 is 10000000.
NormEpsilon == 10
NormOne == 10000000

\* Number of smoother calls in a run.
MaxSmooths == 3

\* GestureFeature.__init__ defaults of min and max, radians.
GestureMin == 30
GestureMax == 95

\* The screen width get_screen_size falls back on, which the loader puts in
\* place of the sensitivity "screen.width".
ScreenWidth == 1920

\* Number of frames in a run of the pipeline.
MaxPipeFrames == 3

\* Number of binding declarations in a configuration, and of frames a
\* Binding Index is updated with.
MaxBindings == 2
MaxIndexFrames == 2

\* Number of updates of a binding behind a gate whose feature may fail.
MaxLostUpdates == 3

\* Camera frames per run.
MaxFrames == 3

None == << >>
Some(v) == <<v>>

\* Milliseconds that pass between two evaluations: none, one, or a default
\* refractory time.
Steps == {0, 1, GateDefaultRefractoryMs}

\* Values a feature yields, in hundredths: below, at, between and above the
\* thresholds used below.
FeatureValues == {30, 45, 47, 50, 60}

Policies == {"release", "hold", "true", "toggle"}

\* (op, trigger_pct, release_pct): the builder's defaults, the shipped
\* configuration's op "<" with the same numbers, and op "<" with the release
\* threshold above the trigger threshold.
GateThresholds == { <<">", GateDefaultTriggerPct, GateDefaultReleasePct>>,
                    <<"<", GateDefaultTriggerPct, GateDefaultReleasePct>>,
                    <<"<", GateDefaultReleasePct, GateDefaultTriggerPct>> }

GateRefractories == {0, 1, GateDefaultRefractoryMs}

GateConfigs ==
    { [op |-> t[1], trigger_pct |-> t[2], release_pct |-> t[3],
       refractory_ms |-> r, lost_hand_policy |-> p] :
        t \in GateThresholds, r \in GateRefractories, p \in Policies }

-----------------------------------------------------------------------------
(* Gate *)

\* Gate.__init__
GateInit ==
    [state |-> FALSE, t_last |-> 0, _last_value |-> None,
     _last_tracked |-> FALSE, _last_time |-> 0]

\* A comparison that also fires at the threshold itself.
Desired_AtThreshold(op, v, trigger_pct) ==
    IF op = ">" THEN v >= trigger_pct ELSE v =< trigger_pct

\* desired = (v > trigger_pct) if op == ">" else (v < trigger_pct)
Desired(op, v, trigger_pct) ==
    IF op = ">" THEN v > trigger_pct ELSE v < trigger_pct

\* A release test that also fires at the threshold itself.
ReleaseOk_AtThreshold(op, v, release_pct) ==
    IF op = ">" THEN v =< release_pct ELSE v >= release_pct

\* release_ok = (v < release_pct) if op == ">" else (v > release_pct)
ReleaseOk(op, v, release_pct) ==
    IF op = ">" THEN v < release_pct ELSE v > release_pct

\* A refractory test that passes when exactly refractory_ms has elapsed.
RefractoryElapsed_AtLeast(now_ms, t_last, refractory_ms) ==
    (now_ms - t_last) >= refractory_ms

\* (now_ms - self.t_last) > self.refractory_ms
RefractoryElapsed(now_ms, t_last, refractory_ms) ==
    (now_ms - t_last) > refractory_ms

\* A "hold" that lets go of the gate.
LostHold_Releases(g) ==
    [state |-> FALSE, t_last |-> g.t_last, ret |-> FALSE]

\* lost_hand_policy == "hold": return self.state
LostHold(g) ==
    [state |-> g.state, t_last |-> g.t_last, ret |-> g.state]

\* A "true" that returns True and forgets to store it.
LostTrue_NotStored(g) ==
    [state |-> g.state, t_last |-> g.t_last, ret |-> TRUE]

\* lost_hand_policy == "true": self.state = True; return True
LostTrue(g) ==
    [state |-> TRUE, t_last |-> g.t_last, ret |-> TRUE]

\* A "toggle" that flips only in the first untracked evaluation after a
\* tracked one.
LostToggle_OncePerLoss(g, cfg, now_ms) ==
    IF g._last_tracked /\ RefractoryElapsed(now_ms, g.t_last, cfg.refractory_ms)
    THEN [state |-> ~g.state, t_last |-> now_ms, ret |-> ~g.state]
    ELSE [state |-> g.state, t_last |-> g.t_last, ret |-> g.state]

\* lost_hand_policy == "toggle": flip and stamp once the refractory time is over
LostToggle(g, cfg, now_ms) ==
    IF RefractoryElapsed(now_ms, g.t_last, cfg.refractory_ms)
    THEN [state |-> ~g.state, t_last |-> now_ms, ret |-> ~g.state]
    ELSE [state |-> g.state, t_last |-> g.t_last, ret |-> g.state]

\* A release that waits for the refractory time, as the tracked close does.
LostRelease_AfterRefractory(g, cfg, now_ms) ==
    IF RefractoryElapsed(now_ms, g.t_last, cfg.refractory_ms)
    THEN [state |-> FALSE, t_last |-> g.t_last, ret |-> FALSE]
    ELSE [state |-> g.state, t_last |-> g.t_last, ret |-> g.state]

\* A release that records the time at which it closes an open gate.
LostRelease_Stamps(g, cfg, now_ms) ==
    [state |-> FALSE, t_last |-> IF g.state THEN now_ms ELSE g.t_last, ret |-> FALSE]

\* else (release): self.state = False; return False
LostRelease(g, cfg, now_ms) ==
    [state |-> FALSE, t_last |-> g.t_last, ret |-> FALSE]

\* The lost-hand branch of getState: the new state, t_last and return value.
GateLostHand(g, cfg, now_ms) ==
    IF cfg.lost_hand_policy = "hold" THEN LostHold(g)
    ELSE IF cfg.lost_hand_policy = "true" THEN LostTrue(g)
    ELSE IF cfg.lost_hand_policy = "toggle" THEN LostToggle(g, cfg, now_ms)
    ELSE LostRelease(g, cfg, now_ms)

\* A tracked branch whose close does not wait for the refractory time.
GateTracked_CloseAtOnce(g, cfg, v, now_ms) ==
    LET desired    == Desired(cfg.op, v, cfg.trigger_pct)
        release_ok == ReleaseOk(cfg.op, v, cfg.release_pct)
    IN  IF ~g.state
        THEN IF desired /\ RefractoryElapsed(now_ms, g.t_last, cfg.refractory_ms)
             THEN [state |-> TRUE, t_last |-> now_ms, ret |-> TRUE]
             ELSE [state |-> g.state, t_last |-> g.t_last, ret |-> g.state]
        ELSE IF release_ok
             THEN [state |-> FALSE, t_last |-> now_ms, ret |-> FALSE]
             ELSE [state |-> g.state, t_last |-> g.t_last, ret |-> g.state]

\* A tracked branch with a single threshold: from Open it closes as soon as
\* desired no longer holds.
GateTracked_OneThreshold(g, cfg, v, now_ms) ==
    LET desired == Desired(cfg.op, v, cfg.trigger_pct)
    IN  IF ~g.state
        THEN IF desired /\ RefractoryElapsed(now_ms, g.t_last, cfg.refractory_ms)
             THEN [state |-> TRUE, t_last |-> now_ms, ret |-> TRUE]
             ELSE [state |-> g.state, t_last |-> g.t_last, ret |-> g.state]
        ELSE IF ~desired /\ RefractoryElapsed(now_ms, g.t_last, cfg.refractory_ms)
             THEN [state |-> FALSE, t_last |-> now_ms, ret |-> FALSE]
             ELSE [state |-> g.state, t_last |-> g.t_last, ret |-> g.state]

\* The tracked branch of getState.
GateTracked(g, cfg, v, now_ms) ==
    LET desired    == Desired(cfg.op, v, cfg.trigger_pct)
        release_ok == ReleaseOk(cfg.op, v, cfg.release_pct)
    IN  IF ~g.state
        THEN IF desired /\ RefractoryElapsed(now_ms, g.t_last, cfg.refractory_ms)
             THEN [state |-> TRUE, t_last |-> now_ms, ret |-> TRUE]
             ELSE [state |-> g.state, t_last |-> g.t_last, ret |-> g.state]
        ELSE IF release_ok /\ RefractoryElapsed(now_ms, g.t_last, cfg.refractory_ms)
             THEN [state |-> FALSE, t_last |-> now_ms, ret |-> FALSE]
             ELSE [state |-> g.state, t_last |-> g.t_last, ret |-> g.state]

\* Gate.getState, with the feature's value val (None when it has none, raises
\* or is missing) and the clock reading now_ms: the gate afterwards and the
\* value returned.
getState(g, cfg, val, now_ms) ==
    LET tracked == val # None
        r == IF ~tracked THEN GateLostHand(g, cfg, now_ms)
                         ELSE GateTracked(g, cfg, val[1], now_ms)
    IN  [gate |-> [state |-> r.state, t_last |-> r.t_last, _last_value |-> val,
                   _last_tracked |-> tracked, _last_time |-> now_ms],
         ret  |-> r.ret]

\* The state changes of the current run of tracked evaluations, after an
\* evaluation that took the gate from g to g2.
RunChanges(rc, g, g2) ==
    IF ~g2._last_tracked THEN << >>
    ELSE IF g2.state # g.state THEN Append(rc, g2._last_time)
    ELSE rc

\* The length of the current run of untracked evaluations, after an
\* evaluation that left the gate as g2.
LostRun(n, g2) == IF g2._last_tracked THEN 0 ELSE n + 1

\* The time of the latest flip made by policy "toggle", after an evaluation
\* that took the gate from g to g2.
LastFlip(lf, cfg, g, g2) ==
    IF ~g2._last_tracked /\ cfg.lost_hand_policy = "toggle" /\ g2.state # g.state
    THEN Some(g2._last_time)
    ELSE lf

\* The latest state change that a tracked evaluation or a "toggle" flip made,
\* and the state change, if any, that the latest evaluation made under policy
\* "release" or "true", after an evaluation that took the gate from g to g2.
GateHistory(h, cfg, g, g2) ==
    [stamped |-> IF /\ g2.state # g.state
                    /\ (g2._last_tracked \/ cfg.lost_hand_policy = "toggle")
                 THEN Some(g2._last_time) ELSE h.stamped,
     forced  |-> IF /\ g2.state # g.state
                    /\ ~g2._last_tracked
                    /\ cfg.lost_hand_policy \in {"release", "true"}
                 THEN Some(g2._last_time) ELSE None]

\* No state change was made yet.
GateHistoryInit == [stamped |-> None, forced |-> None]

\* The history at the entry of a gate's first evaluation.
GatePreInit ==
    [state |-> FALSE, t_last |-> 0, last_flip |-> None, stamped |-> None,
     forced |-> None]

-----------------------------------------------------------------------------
(* Actuators *)

\* ActuatorBuilder.build: a trigger/release pair (either half may be absent),
\* or a single event actuator.
Actuators ==
    { [pair |-> TRUE, trigger_actuator |-> TRUE, release_actuator |-> r] :
        r \in BOOLEAN }
    \cup { [pair |-> FALSE, trigger_actuator |-> FALSE, release_actuator |-> FALSE] }

\* ActuatorPair.trigger(event_type): the leaf actuators it triggers.
ActuatorPairTrigger(act, event_type) ==
    IF event_type \in {"down", "trigger", "None"}
    THEN IF act.trigger_actuator THEN <<"trigger_actuator">> ELSE << >>
    ELSE IF event_type \in {"up", "release"}
    THEN IF act.release_actuator THEN <<"release_actuator">> ELSE << >>
    ELSE << >>

\* hasattr(actuator, 'trigger_actuator') or hasattr(actuator, 'release_actuator')
IsPair(act) == act.pair

-----------------------------------------------------------------------------
(* Event Binding *)

\* EventBinding.__init__
EventBindingInit ==
    [prev_state |-> FALSE, _last_transition_time |-> 0, _last_state |-> None,
     _last_value |-> None, _last_time |-> "None"]

\* x if x is not None else default
OrDefault(x, default) == IF x # None THEN x[1] ELSE default

\* self._custom_op if self._custom_op is not None else '>'
OpOrDefault(op) == IF op # "None" THEN op ELSE ">"

\* desired = (v > trigger_pct) if op == '>' else (v < trigger_pct)
EventDesired(op, v, trigger_pct) ==
    IF op = ">" THEN v > trigger_pct ELSE v < trigger_pct

\* release_ok = (v < release_pct) if op == '>' else (v > release_pct)
EventReleaseOk(op, v, release_pct) ==
    IF op = ">" THEN v < release_pct ELSE v > release_pct

\* (now_ms - self._last_transition_time) > refractory_ms
EventRefractoryElapsed(now_ms, last_transition_time, refractory_ms) ==
    (now_ms - last_transition_time) > refractory_ms

\* A binding that runs its hysteresis whatever its gate reports.
EventNowState_GateIgnored(b, cfg, value, gate_state, now_ms) ==
    LET trigger_pct   == OrDefault(cfg.trigger_pct, EventDefaultTriggerPct)
        release_pct   == OrDefault(cfg.release_pct, EventDefaultReleasePct)
        refractory_ms == OrDefault(cfg.refractory_ms, EventDefaultRefractoryMs)
        op            == OpOrDefault(cfg.op)
        ltt           == b._last_transition_time
        keep(s)       == [now_state |-> s, _last_transition_time |-> ltt]
        stamp(s)      == [now_state |-> s, _last_transition_time |-> now_ms]
    IN  IF value # None
        THEN IF ~b.prev_state
             THEN IF /\ EventDesired(op, value[1], trigger_pct)
                     /\ EventRefractoryElapsed(now_ms, ltt, refractory_ms)
                  THEN stamp(TRUE)
                  ELSE keep(FALSE)
             ELSE IF ~EventReleaseOk(op, value[1], release_pct)
                  THEN keep(TRUE)
                  ELSE IF EventRefractoryElapsed(now_ms, ltt, refractory_ms)
                       THEN stamp(FALSE)
                       ELSE keep(FALSE)
        ELSE keep(FALSE)

\* A binding that stays as it is while its feature has no value.
EventNowState_ValuelessKeeps(b, cfg, value, gate_state, now_ms) ==
    LET trigger_pct   == OrDefault(cfg.trigger_pct, EventDefaultTriggerPct)
        release_pct   == OrDefault(cfg.release_pct, EventDefaultReleasePct)
        refractory_ms == OrDefault(cfg.refractory_ms, EventDefaultRefractoryMs)
        op            == OpOrDefault(cfg.op)
        ltt           == b._last_transition_time
        keep(s)       == [now_state |-> s, _last_transition_time |-> ltt]
        stamp(s)      == [now_state |-> s, _last_transition_time |-> now_ms]
    IN  IF gate_state
        THEN IF value = None
             THEN keep(b.prev_state)
             ELSE IF ~b.prev_state
             THEN IF /\ EventDesired(op, value[1], trigger_pct)
                     /\ EventRefractoryElapsed(now_ms, ltt, refractory_ms)
                  THEN stamp(TRUE)
                  ELSE keep(FALSE)
             ELSE IF ~EventReleaseOk(op, value[1], release_pct)
                  THEN keep(TRUE)
                  ELSE IF EventRefractoryElapsed(now_ms, ltt, refractory_ms)
                       THEN stamp(FALSE)
                       ELSE keep(FALSE)
        ELSE keep(FALSE)

\* A binding that does not record the time of its activation.
EventNowState_ActivationUnstamped(b, cfg, value, gate_state, now_ms) ==
    LET trigger_pct   == OrDefault(cfg.trigger_pct, EventDefaultTriggerPct)
        release_pct   == OrDefault(cfg.release_pct, EventDefaultReleasePct)
        refractory_ms == OrDefault(cfg.refractory_ms, EventDefaultRefractoryMs)
        op            == OpOrDefault(cfg.op)
        ltt           == b._last_transition_time
        keep(s)       == [now_state |-> s, _last_transition_time |-> ltt]
        stamp(s)      == [now_state |-> s, _last_transition_time |-> now_ms]
    IN  IF gate_state /\ value # None
        THEN IF ~b.prev_state
             THEN IF /\ EventDesired(op, value[1], trigger_pct)
                     /\ EventRefractoryElapsed(now_ms, ltt, refractory_ms)
                  THEN keep(TRUE)
                  ELSE keep(FALSE)
             ELSE IF ~EventReleaseOk(op, value[1], release_pct)
                  THEN keep(TRUE)
                  ELSE IF EventRefractoryElapsed(now_ms, ltt, refractory_ms)
                       THEN stamp(FALSE)
                       ELSE keep(FALSE)
        ELSE keep(FALSE)

\* The hysteresis part of update: now_state and _last_transition_time.
\* now_state starts False and is set True only by an activation or by an
\* active binding whose value does not satisfy release_ok.
EventNowState(b, cfg, value, gate_state, now_ms) ==
    LET trigger_pct   == OrDefault(cfg.trigger_pct, EventDefaultTriggerPct)
        release_pct   == OrDefault(cfg.release_pct, EventDefaultReleasePct)
        refractory_ms == OrDefault(cfg.refractory_ms, EventDefaultRefractoryMs)
        op            == OpOrDefault(cfg.op)
        ltt           == b._last_transition_time
        keep(s)       == [now_state |-> s, _last_transition_time |-> ltt]
        stamp(s)      == [now_state |-> s, _last_transition_time |-> now_ms]
    IN  IF gate_state /\ value # None
        THEN IF ~b.prev_state
             THEN IF /\ EventDesired(op, value[1], trigger_pct)
                     /\ EventRefractoryElapsed(now_ms, ltt, refractory_ms)
                  THEN stamp(TRUE)
                  ELSE keep(FALSE)
             ELSE IF ~EventReleaseOk(op, value[1], release_pct)
                  THEN keep(TRUE)
                  ELSE IF EventRefractoryElapsed(now_ms, ltt, refractory_ms)
                       THEN stamp(FALSE)
                       ELSE keep(FALSE)
        ELSE keep(FALSE)

\* A binding that sends its event on every update it is active or inactive
\* in, not only when that changes.
EventEmit_EveryUpdate(act, prev_state, now_state) ==
    IF now_state
    THEN [calls |-> IF IsPair(act) THEN <<"down">> ELSE <<"None">>,
          _last_time |-> "down"]
    ELSE [calls |-> IF IsPair(act) THEN <<"up">> ELSE << >>,
          _last_time |-> "up"]

\* A binding that calls trigger() on a single event actuator when it goes
\* inactive, too.
EventEmit_SingleReleased(act, prev_state, now_state) ==
    IF now_state /\ ~prev_state
    THEN [calls |-> IF IsPair(act) THEN <<"down">> ELSE <<"None">>,
          _last_time |-> "down"]
    ELSE IF ~now_state /\ prev_state
    THEN [calls |-> IF IsPair(act) THEN <<"up">> ELSE <<"None">>,
          _last_time |-> "up"]
    ELSE [calls |-> << >>, _last_time |-> "None"]

\* The dispatch part of update: the calls made on the actuator (each named by
\* the event type passed, "None" for trigger()) and _last_time.
EventEmit(act, prev_state, now_state) ==
    IF now_state /\ ~prev_state
    THEN [calls |-> IF IsPair(act) THEN <<"down">> ELSE <<"None">>,
          _last_time |-> "down"]
    ELSE IF ~now_state /\ prev_state
    THEN [calls |-> IF IsPair(act) THEN <<"up">> ELSE << >>,
          _last_time |-> "up"]
    ELSE [calls |-> << >>, _last_time |-> "None"]

\* The leaf actuators triggered by the calls cs made on actuator act.
Fired(act, cs) ==
    IF cs = << >> THEN << >>
    ELSE IF IsPair(act) THEN ActuatorPairTrigger(act, cs[1])
    ELSE <<"actuator">>

\* A binding whose update does not store now_state in prev_state.
EventUpdate_PrevStateKept(b, cfg, value, gate_state, now_ms) ==
    LET h == EventNowState(b, cfg, value, gate_state, now_ms)
        e == EventEmit(cfg.actuator, b.prev_state, h.now_state)
    IN  [binding |-> [prev_state |-> b.prev_state,
                      _last_transition_time |-> h._last_transition_time,
                      _last_state |-> Some(h.now_state),
                      _last_value |-> value,
                      _last_time |-> e._last_time],
         calls |-> e.calls,
         fired |-> Fired(cfg.actuator, e.calls)]

\* EventBinding.update with feature value `value`, gate result gate_state and
\* clock reading now_ms: the binding afterwards and the actuator calls made.
EventUpdate(b, cfg, value, gate_state, now_ms) ==
    LET h == EventNowState(b, cfg, value, gate_state, now_ms)
        e == EventEmit(cfg.actuator, b.prev_state, h.now_state)
    IN  [binding |-> [prev_state |-> h.now_state,
                      _last_transition_time |-> h._last_transition_time,
                      _last_state |-> Some(h.now_state),
                      _last_value |-> value,
                      _last_time |-> e._last_time],
         calls |-> e.calls,
         fired |-> Fired(cfg.actuator, e.calls)]

\* The events sent and activations made up to and including an update made
\* at u.now_ms that left the binding b and made the actuator calls cs, given
\* those before it.
EventHistory(h, b, cs, u) ==
    [event   |-> IF cs # << >> THEN cs[1] ELSE h.event,
     down_at |-> IF b._last_time = "down" THEN Some(u.now_ms) ELSE h.down_at]

\* Values an event binding's feature yields, in hundredths.
EventValues == {30, 50, 60, 90}

\* Values the gate of an event binding sees.
EventGateValues == {30, 60}

\* (trigger_pct, release_pct, refractory_ms, op) as configured: nothing (the
\* defaults apply), the shipped left_click binding, and an op "<" binding.
EventThresholds ==
    { <<None, None, None, "None">>,
      <<Some(ClickTriggerPct), Some(ClickReleasePct), Some(ClickRefractoryMs), ">">>,
      <<Some(50), Some(60), Some(1), "<">> }

EventConfigs ==
    { [trigger_pct |-> t[1], release_pct |-> t[2], refractory_ms |-> t[3],
       op |-> t[4], has_gate |-> hg, actuator |-> a] :
        t \in EventThresholds, hg \in BOOLEAN, a \in Actuators }

\* The gates of event bindings: the shipped gate, under each lost-hand policy.
EventGateConfigs ==
    { [op |-> "<", trigger_pct |-> GateDefaultTriggerPct,
       release_pct |-> GateDefaultReleasePct,
       refractory_ms |-> GateDefaultRefractoryMs, lost_hand_policy |-> p] :
        p \in Policies }

\* The binding part of the state while no binding is evaluated.
BindingIdle ==
    /\ bcfg = [trigger_pct |-> None, release_pct |-> None, refractory_ms |-> None,
               op |-> "None", has_gate |-> FALSE,
               actuator |-> [pair |-> FALSE, trigger_actuator |-> FALSE,
                             release_actuator |-> FALSE]]
    /\ binding = EventBindingInit
    /\ bpre = [prev_state |-> FALSE, _last_transition_time |-> 0]
    /\ upd = [now_ms |-> 0, gate_state |-> FALSE]
    /\ calls = << >>
    /\ fired = << >>
    /\ bhist = [event |-> "None", down_at |-> None]

-----------------------------------------------------------------------------
(* Delta and Absolute Bindings *)

\* Binding.__init__
DeltaBindingInit == [_last_state |-> None, _last_value |-> None]

\* abs(value)
abs(x) == IF x < 0 THEN -x ELSE x

\* The outcomes of an update: the binding afterwards, the values passed to
\* actuator.trigger, and whether the update raised.
Returned(b, cs) == [binding |-> b, calls |-> cs, raised |-> FALSE]
Raised(b) == [binding |-> b, calls |-> << >>, raised |-> TRUE]

\* A binding that sends value * scale whatever the deadzone.
DeltaEmit_NoDeadzone(b, cfg, v) ==
    Returned([_last_state |-> Some(TRUE), _last_value |-> Some(v * cfg.scale)],
             <<v * cfg.scale>>)

\* DeltaBinding.update once the gate is open and the feature has value v
\* (hundredths): the command is v * scale, in hundredths too.  Inside the
\* deadzone _last_value is left as it was.
DeltaEmit(b, cfg, v) ==
    IF abs(v) > cfg.deadzone
    THEN Returned([_last_state |-> Some(TRUE), _last_value |-> Some(v * cfg.scale)],
                  <<v * cfg.scale>>)
    ELSE Returned([_last_state |-> Some(TRUE), _last_value |-> b._last_value], << >>)

\* A binding that sends nothing for a feature value of zero.
AbsEmit_SkipZero(b, cfg, v) ==
    LET scaled == cfg.min_value * 100 + (cfg.max_value - cfg.min_value) * v
    IN  IF v = 0
        THEN Returned([_last_state |-> Some(TRUE), _last_value |-> b._last_value], << >>)
        ELSE Returned([_last_state |-> Some(TRUE), _last_value |-> Some(scaled)],
                      <<scaled>>)

\* AbsBinding.update once the gate is open and the feature has value v
\* (hundredths): scaled = min_value + (max_value - min_value) * value, in
\* hundredths.
AbsEmit(b, cfg, v) ==
    LET scaled == cfg.min_value * 100 + (cfg.max_value - cfg.min_value) * v
    IN  Returned([_last_state |-> Some(TRUE), _last_value |-> Some(scaled)], <<scaled>>)

\* DeltaBinding.update / AbsBinding.update after self.gate.getState returned
\* gate_state; the feature is read only if the gate is open.
DeltaAbsGated(b, cfg, gate_state, value) ==
    IF ~gate_state
    THEN Returned([_last_state |-> Some(FALSE), _last_value |-> None], << >>)
    ELSE IF value = None
    THEN Returned([_last_state |-> Some(TRUE), _last_value |-> None], << >>)
    ELSE IF cfg.kind = "delta" THEN DeltaEmit(b, cfg, value[1])
    ELSE AbsEmit(b, cfg, value[1])

\* DeltaBinding.update / AbsBinding.update of a binding built without a gate
\* block: GateBuilder.build returned None, and `self.gate.getState` raises
\* AttributeError before anything is read or written.
DeltaAbsUngated(b, cfg, value) == Raised(b)

\* Values a Delta or Absolute binding's feature yields, in hundredths.
DeltaValues == {-50, 0, 20}

\* Values the gate of a Delta or Absolute binding sees.
DeltaGateValues == {30, 60}

\* Delta bindings: scale and deadzone as built by default, the shipped
\* scroll sensitivity, and a deadzone of 0.2.
DeltaConfigs ==
    { [kind |-> "delta", has_gate |-> hg, scale |-> sc, deadzone |-> dz,
       min_value |-> AbsDefaultMin, max_value |-> AbsDefaultMax] :
        hg \in BOOLEAN, sc \in {DeltaDefaultScale, ScrollSensitivity},
        dz \in {DeltaDefaultDeadzone, 20} }

\* Absolute bindings: the default range 0..1, and a range 10..30.
AbsConfigs ==
    { [kind |-> "abs", has_gate |-> hg, scale |-> DeltaDefaultScale,
       deadzone |-> DeltaDefaultDeadzone, min_value |-> r[1], max_value |-> r[2]] :
        hg \in BOOLEAN, r \in {<<AbsDefaultMin, AbsDefaultMax>>, <<10, 30>>} }

\* The gate of the shipped move_x, move_y and left_click bindings.
ShippedGateConfig ==
    [op |-> "<", trigger_pct |-> GateDefaultTriggerPct,
     release_pct |-> GateDefaultReleasePct,
     refractory_ms |-> GateDefaultRefractoryMs, lost_hand_policy |-> "release"]

\* The Delta/Abs part of the state while no such binding is evaluated.
DeltaIdle ==
    /\ dcfg = [kind |-> "delta", has_gate |-> FALSE, scale |-> DeltaDefaultScale,
               deadzone |-> DeltaDefaultDeadzone, min_value |-> AbsDefaultMin,
               max_value |-> AbsDefaultMax]
    /\ dbind = DeltaBindingInit
    /\ dupd = [gate_state |-> None, value |-> None, raised |-> FALSE]
    /\ dcalls = << >>

-----------------------------------------------------------------------------
(* Features *)

\* (height, width) of the camera frame, MultiLandmark.frame_shape.
FrameShape == <<200, 200>>

\* A hand snapshot (HandState) is its label and its palm-center landmark, which
\* stands for all its landmarks; the landmark is its normalized coordinates
\* (x, y) in hundredths.  HandState is a dataclass and its landmarks are
\* dataclass instances, so `==` between two snapshots compares these field by
\* field: two snapshots the tracker built in different frames are equal when
\* their label and coordinates are.
Snapshot(label, palm) == Some([label |-> label, palm |-> palm])

\* MultiLandmark.sArray2: (sx, sy) = (x * frame_shape[1], y * frame_shape[0]).
\* With x and y in hundredths, sx and sy are in hundredths of a screen unit.
sArray2(lm) == <<lm[1] * FrameShape[2], lm[2] * FrameShape[1]>>

\* np.dot of two pairs
dot(a, b) == a[1] * b[1] + a[2] * b[2]

\* A normalization that returns 0 also for a range of exactly 1e-6.
normalize_AtEpsilon(raw, min_v, max_v, eps) ==
    LET rng == max_v - min_v
    IN  IF abs(rng) <= eps THEN 0 ELSE ((raw - min_v) * 100) \div rng

\* Feature.normalize_value with self.min = min_v and self.max = max_v, which
\* are in the unit of raw, as is eps, the source's 1e-6; the result is in
\* hundredths.
normalize(raw, min_v, max_v, eps) ==
    LET rng == max_v - min_v
    IN  IF abs(rng) < eps THEN 0 ELSE ((raw - min_v) * 100) \div rng

\* Feature.normalize_value on hundredths: 1e-6 is below one hundredth, so a
\* range is narrower than 1e-6 exactly when it is narrower than 1.
normalize_value(raw, min_v, max_v) == normalize(raw, min_v, max_v, 1)

\* max(-1.0, min(1.0, out)), in hundredths
Clamp(out) == IF out < -100 THEN -100 ELSE IF out > 100 THEN 100 ELSE out

\* The strings FeatureIndex.__init__ passes to the feature constructors as
\* `hand`, which are also the prefixes of the names it registers.
FeatureIndexHands == {"right_hand", "left_hand"}

\* hand = left_hand if self.hand == 'left' else right_hand
SelectHand(hand, left_hand, right_hand) ==
    IF hand = "left" THEN left_hand ELSE right_hand

\* A test that never takes a snapshot for the one already processed.
SameSnapshot_Never(prev_hand, hand) == FALSE

\* hand and self.prev_hand == hand
SameSnapshot(prev_hand, hand) == hand # None /\ prev_hand = hand

\* Feature.__init__ and MovementFeature.__init__
FeatureInit ==
    [prev_palm |-> None, prev_hand |-> None, _last_value |-> None,
     _last_raw_value |-> None]

\* MovementFeature.getValue with no previous palm center: the neutral 0.0.
MovementFirst(f, cfg, hand) ==
    [feat |-> [prev_palm |-> Some(hand[1].palm), prev_hand |-> hand,
               _last_value |-> Some(0), _last_raw_value |-> Some(0)],
     ret |-> Some(0)]

\* MovementFeature.getValue with a previous palm center: the displacement in
\* screen units projected on axis_vec, normalized with min = 0 and
\* max = range_norm, clamped.
MovementDelta(f, cfg, hand) ==
    LET pc  == hand[1].palm
        s   == sArray2(pc)
        sp  == sArray2(f.prev_palm[1])
        val == dot(<<s[1] - sp[1], s[2] - sp[2]>>, cfg.axis_vec)
        out == Clamp(normalize_value(val, 0, cfg.range_norm))
    IN  [feat |-> [prev_palm |-> Some(pc), prev_hand |-> hand,
                   _last_value |-> Some(out), _last_raw_value |-> Some(val)],
         ret |-> Some(out)]

\* MovementFeature.getValue: the feature afterwards and the value returned.
MovementGetValue(f, cfg, left_hand, right_hand) ==
    LET hand == SelectHand(cfg.hand, left_hand, right_hand)
    IN  IF SameSnapshot(f.prev_hand, hand)
        THEN [feat |-> f, ret |-> f._last_value]
        ELSE IF hand = None
        THEN [feat |-> FeatureInit, ret |-> None]
        ELSE IF f.prev_palm = None
        THEN MovementFirst(f, cfg, hand)
        ELSE MovementDelta(f, cfg, hand)

\* PositionFeature.getValue under the default calibration quad, whose
\* homography is the identity: the palm center's normalized x or y, normalized
\* again with the default min = 0 and max = 1.
PositionGetValue(f, cfg, left_hand, right_hand) ==
    LET hand == SelectHand(cfg.hand, left_hand, right_hand)
    IN  IF hand = None
        THEN [feat |-> FeatureInit, ret |-> None]
        ELSE LET pc  == hand[1].palm
                 val == IF cfg.axis = "x" THEN pc[1] ELSE pc[2]
                 out == normalize_value(val, 0, 100)
             IN  [feat |-> [prev_palm |-> None, prev_hand |-> None,
                            _last_value |-> Some(out), _last_raw_value |-> Some(val)],
                  ret |-> Some(out)]

\* getValue of the feature's class.
FeatureGetValue(f, cfg, left_hand, right_hand) ==
    IF cfg.class = "MovementFeature"
    THEN MovementGetValue(f, cfg, left_hand, right_hand)
    ELSE PositionGetValue(f, cfg, left_hand, right_hand)

\* Palm centers the tracker reports, normalized (x, y) in hundredths: with
\* the 200 x 200 frame, 10 screen units right of the first, and 40 above it.
PalmCenters == {<<50, 50>>, <<55, 50>>, <<50, 30>>}

\* What hands_map.get(label) yields in a frame: the hand's snapshot or None.
HandOptions(label) == {None} \cup {Snapshot(label, p) : p \in PalmCenters}

\* MovementFeature.__init__: axis_vec defaults to [0, -1] for "up", else [1, 0]
AxisVec(axis) == IF axis = "up" THEN <<0, -1>> ELSE <<1, 0>>

\* The features FeatureIndex.__init__ registers as <hand>.motion.up,
\* <hand>.motion.left, <hand>.pos.x and <hand>.pos.y, under the default
\* range_norm and a calibrated one of 40 screen units.
FeatureConfigs ==
    { [class |-> "MovementFeature", hand |-> h, axis |-> a, axis_vec |-> AxisVec(a),
       range_norm |-> rn] :
        h \in FeatureIndexHands, a \in {"up", "left"}, rn \in {RangeNormDefault, 4000} }
    \cup
    { [class |-> "PositionFeature", hand |-> h, axis |-> a, axis_vec |-> AxisVec(a),
       range_norm |-> RangeNormDefault] :
        h \in FeatureIndexHands, a \in {"x", "y"} }

\* The feature part of the state while no feature is followed.
FeatureIdle ==
    /\ fcfg = [class |-> "PositionFeature", hand |-> "right_hand", axis |-> "x",
               axis_vec |-> AxisVec("x"), range_norm |-> RangeNormDefault]
    /\ feat = FeatureInit
    /\ fpre = FeatureInit
    /\ fframe = [left_hand |-> None, right_hand |-> None, calls |-> 0]
    /\ flast = [left_hand |-> None, right_hand |-> None]
    /\ fcall = [ret |-> None, before |-> None]

-----------------------------------------------------------------------------
(* Normalization on its own *)

\* The (min, max) a feature is calibrated with, in units of 1e-7, each with
\* the spacing of the raw values it is given: the default 0..1, the same
\* inverted, a range off zero, a range of exactly 1e-6 and its inverse, a
\* range of 5e-7 and its inverse, and an empty range.
NormRanges ==
    { [min_v |-> 0, max_v |-> NormOne, step |-> NormOne \div 2],
      [min_v |-> NormOne, max_v |-> 0, step |-> NormOne \div 2],
      [min_v |-> NormOne \div 4, max_v |-> 3 * (NormOne \div 4), step |-> NormOne \div 4],
      [min_v |-> 0, max_v |-> NormEpsilon, step |-> NormEpsilon \div 2],
      [min_v |-> NormEpsilon, max_v |-> 0, step |-> NormEpsilon \div 2],
      [min_v |-> 0, max_v |-> NormEpsilon \div 2, step |-> NormEpsilon \div 2],
      [min_v |-> NormEpsilon \div 2, max_v |-> 0, step |-> NormEpsilon \div 2],
      [min_v |-> 2 * NormEpsilon, max_v |-> 2 * NormEpsilon, step |-> NormEpsilon \div 2] }

\* The raw values a feature calibrated with cfg is given.
NormRaws(cfg) == { k * cfg.step : k \in -2..4 }

\* The normalization part of the state while normalize_value is not followed.
NormIdle ==
    /\ ncfg = [min_v |-> 0, max_v |-> NormOne, step |-> NormOne \div 2]
    /\ ncall = [raw |-> None, out |-> None, before |-> None]

-----------------------------------------------------------------------------
(* Smoothing *)

\* The labels the tracker gives its hands.
Labels == {"Left", "Right"}

\* MultiLandmark.__mul__ by a number: a new landmark
lm_mul(lm, val) == <<lm[1] * val, lm[2] * val>>

\* MultiLandmark.__iadd__ of a landmark
lm_iadd(lm, o) == <<lm[1] + o[1], lm[2] + o[2]>>

\* MultiLandmark.__truediv__ by a number, which `/=` falls back on: a new
\* landmark.  Its coordinates are the quotients of lm's by val, kept as the
\* pair of dividend and divisor.
lm_truediv(lm, val) == [of |-> lm, by |-> val]

\* HandSmoother.add
add(window, hand, timestamp) == Append(window, [t |-> timestamp, hand |-> hand])

\* A pruning that also drops the entry exactly at the cutoff.
RECURSIVE _prune_AtCutoff(_, _, _)
_prune_AtCutoff(window, now, smoothing_time) ==
    IF window # << >> /\ Head(window).t <= now - smoothing_time
    THEN _prune_AtCutoff(Tail(window), now, smoothing_time)
    ELSE window

\* HandSmoother._prune: popleft while the oldest entry is before the cutoff
RECURSIVE _prune(_, _, _)
_prune(window, now, smoothing_time) ==
    IF window # << >> /\ Head(window).t < now - smoothing_time
    THEN _prune(Tail(window), now, smoothing_time)
    ELSE window

\* The inner loop of get_smoothed over reversed(self._window), from entry k
\* down to the oldest, with avg_lm so far.
RECURSIVE Accumulate(_, _, _)
Accumulate(window, k, avg_lm) ==
    IF k = 0 THEN avg_lm
    ELSE Accumulate(window, k - 1, lm_iadd(avg_lm, window[k].hand.palm))

\* An average that gives the newest entry the weight of the others.
get_smoothed_Unweighted(window) ==
    IF window = << >> THEN None
    ELSE LET n == Len(window)
             avg_lm == Accumulate(window, n - 1, lm_mul(window[n].hand.palm, 1))
         IN  Some([label |-> window[n].hand.label,
                   palm |-> lm_truediv(avg_lm, n + 2)])

\* HandSmoother.get_smoothed: None for an empty window, else a new snapshot
\* with the newest entry's label and the averaged landmark.
get_smoothed(window) ==
    IF window = << >> THEN None
    ELSE LET n == Len(window)
             avg_lm == Accumulate(window, n - 1, lm_mul(window[n].hand.palm, 3))
         IN  Some([label |-> window[n].hand.label,
                   palm |-> lm_truediv(avg_lm, n + 2)])

\* HandSmoother.smooth(hand, now): the window afterwards and the value returned.
smooth(window, hand, now, smoothing_time) ==
    LET w == _prune(add(window, hand, now), now, smoothing_time)
    IN  [window |-> w, ret |-> get_smoothed(w)]

\* An index that keeps every label's snapshots in the smoother of "Right".
smoothe_OneSmoother(sm, label, hand, now, smoothing_time) ==
    LET made == IF "Right" \in DOMAIN sm THEN sm ELSE sm @@ ("Right" :> << >>)
        r == smooth(made["Right"], hand, now, smoothing_time)
    IN  [smoothers |-> [made EXCEPT !["Right"] = r.window], ret |-> r.ret]

\* HandSmootherIndex.smoothe(label, hand) at time.time() = now: the label's
\* smoother is made on first use, then smooths the snapshot.
smoothe(sm, label, hand, now, smoothing_time) ==
    LET made == IF label \in DOMAIN sm THEN sm ELSE sm @@ (label :> << >>)
        r == smooth(made[label], hand, now, smoothing_time)
    IN  [smoothers |-> [made EXCEPT ![label] = r.window], ret |-> r.ret]

\* The snapshots submitted to the smoothers: per label two palm centers.
SmoothHands(label) == { [label |-> label, palm |-> p] : p \in {<<10, 50>>, <<40, 50>>} }

\* smoothing_time in milliseconds: none, and the 120 ms of the docstring.
SmoothingTimes == {0, 120}

\* Milliseconds between two smoother calls.
SmoothSteps == {0, 50, 120}

\* A dictionary with no key.
EmptyDict == [l \in {} |-> << >>]

\* The smoother part of the state while no smoother is followed.
SmootherIdle ==
    /\ scfg = [smoothing_time |-> 0]
    /\ smoothers = EmptyDict
    /\ solo = [l \in Labels |-> << >>]
    /\ spre = [smoothers |-> EmptyDict, solo |-> [l \in Labels |-> << >>]]
    /\ scall = [op |-> "none", label |-> "none", hand |-> None, now |-> 0,
                ret |-> None, solo_ret |-> None]

-----------------------------------------------------------------------------
(* The pipeline of one gated Delta binding: move_x on right_hand.motion.left, *)
(* gated on right_hand.gesture.closed                                        *)

\* A snapshot whose finger landmarks matter: curv is the average curvature of
\* its four fingers, in hundredths of a radian.
PipeSnapshot(label, palm, curv) ==
    Some([label |-> label, palm |-> palm, curv |-> curv])

\* Feature.__init__
GestureInit == [_last_value |-> None, _last_raw_value |-> None]

\* GestureFeature.getValue for kind "closed": the feature afterwards and the
\* value returned.  Without a hand only _last_value is reset.
GestureGetValue(f, hand_name, left_hand, right_hand) ==
    LET hand == SelectHand(hand_name, left_hand, right_hand)
    IN  IF hand = None
        THEN [feat |-> [f EXCEPT !._last_value = None], ret |-> None]
        ELSE LET avg_curv == hand[1].curv
                 val == normalize_value(avg_curv, GestureMin, GestureMax)
             IN  [feat |-> [_last_value |-> Some(val), _last_raw_value |-> Some(avg_curv)],
                  ret |-> Some(val)]

\* DeltaActuator.__init__
ActuatorInit == [_last_trigger_time |-> None, _last_value |-> None]

\* The actuator after the calls cs of one update, made at now_ms.
ActuatorAfter(a, cs, now_ms) ==
    IF cs = << >> THEN a
    ELSE [_last_trigger_time |-> Some(now_ms), _last_value |-> Some(cs[Len(cs)])]

\* The objects of the pipeline as constructed.
PipeInit ==
    [gfeat |-> GestureInit, gate |-> GateInit, feat |-> FeatureInit,
     dbind |-> DeltaBindingInit, act |-> ActuatorInit, calls |-> << >>]

\* DeltaBinding.update(left_hand, right_hand) at now_ms on the objects p: the
\* gate reads its gesture feature, and the movement feature is read only if
\* the gate is open.  The objects afterwards, with the calls made on the
\* actuator and the update's gate state and feature value.
PipeUpdate(p, gc, fc, dc, left_hand, right_hand, now_ms) ==
    LET gv == GestureGetValue(p.gfeat, "right_hand", left_hand, right_hand)
        g  == getState(p.gate, gc, gv.ret, now_ms)
        mv == IF g.ret THEN MovementGetValue(p.feat, fc, left_hand, right_hand)
              ELSE [feat |-> p.feat, ret |-> None]
        r  == DeltaAbsGated(p.dbind, dc, g.ret, mv.ret)
    IN  [pipe |-> [gfeat |-> gv.feat, gate |-> g.gate, feat |-> mv.feat,
                   dbind |-> r.binding, act |-> ActuatorAfter(p.act, r.calls, now_ms),
                   calls |-> r.calls],
         gate_state |-> g.ret, value |-> mv.ret]

\* Feature.probe_last_value
probe_last_value(f) == [value |-> f._last_value, raw |-> f._last_raw_value]

\* Gate.probe_last_state
probe_last_state(g, input_feature) ==
    [state |-> g.state, feature |-> probe_last_value(input_feature)]

\* DeltaActuator.probe_last
ActuatorProbe(a) ==
    [last_trigger_time |-> a._last_trigger_time, last_value |-> a._last_value]

\* Binding.probe_last; a Delta binding never sets _last_time.
probe_last(p) ==
    [feature |-> probe_last_value(p.feat),
     gate |-> probe_last_state(p.gate, p.gfeat),
     actuator |-> ActuatorProbe(p.act),
     binding_state |-> p.dbind._last_state,
     binding_value |-> p.dbind._last_value,
     binding_time |-> None]

\* A probe that takes the movement feature's last observation with it.
AfterProbe_TakesLast(p) == [p EXCEPT !.feat = FeatureInit]

\* The objects after any of the three probes: a probe assigns nothing.
AfterProbe(p) == p

\* Palm centers of the right hand, 0.01 apart along x.
PipePalms == {<<30, 50>>, <<31, 50>>, <<32, 50>>}

\* Average finger curvatures: 0.43 rad, which normalizes to gesture-closed
\* 0.2, and 0.95 rad, a closed hand.
PipeCurvs == {43, GestureMax}

\* What hands_map.get('Right') yields in a frame.
PipeHands == { PipeSnapshot("Right", p, c) : p \in PipePalms, c \in PipeCurvs }

\* move_x: right_hand.motion.left with the range_norm of the calibration, 0.02
\* or the default.
PipeFeatureConfigs ==
    { [class |-> "MovementFeature", hand |-> "right_hand", axis |-> "left",
       axis_vec |-> AxisVec("left"), range_norm |-> rn] : rn \in {2, RangeNormDefault} }

\* move_x: a Delta binding with a gate and sensitivity "screen.width".
PipeBindingConfig ==
    [kind |-> "delta", has_gate |-> TRUE, scale |-> ScreenWidth,
     deadzone |-> DeltaDefaultDeadzone, min_value |-> AbsDefaultMin,
     max_value |-> AbsDefaultMax]

\* The pipeline part of the state while no pipeline is followed.
PipelineIdle ==
    /\ gfeat = GestureInit
    /\ pact = ActuatorInit
    /\ probe = [kind |-> "none", ret |-> probe_last_value(GestureInit)]
    /\ shadow = PipeInit
    /\ steady = TRUE

-----------------------------------------------------------------------------
(* The Binding Index *)

\* The names FeatureIndex.__init__ registers, of those the declarations use.
RegisteredFeatures ==
    {"right_hand.motion.left", "right_hand.motion.up", "right_hand.gesture.closed",
     "right_hand.curv.index.rel"}

\* FeatureIndex.getFeature: self.features.get(name), None for any other name
getFeature(name) == IF name \in RegisteredFeatures THEN Some(name) ELSE None

\* ActuatorBuilder.build(key) for a string key other than "key...": the
\* family of the actuator it returns, "raise" for its ValueError.
ActuatorBuilder_build(key) ==
    IF key \in {"mouse.move.x", "mouse.move.y", "mouse.scroll.x", "mouse.scroll.y"}
    THEN "delta"
    ELSE IF key \in {"mouse.click.left.down", "mouse.click.left.up",
                     "mouse.click.right.down", "mouse.click.right.up",
                     "mouse.click.middle.down", "mouse.click.middle.up"}
    THEN "event"
    ELSE IF key \in {"mouse.click.left", "mouse.click.right", "mouse.click.middle"}
    THEN "pair"
    ELSE IF key \in {"mouse.pos.x", "mouse.pos.y"}
    THEN "abs"
    ELSE "raise"

\* GateBuilder.build(gate_cfg): None without a gate block, else a Gate on
\* whatever getFeature returns for its 'input'.
GateBuilder_build(gate_cfg) ==
    IF gate_cfg = None THEN None
    ELSE Some([input_feature |-> getFeature(gate_cfg[1].input),
               cfg |-> [op |-> gate_cfg[1].op, trigger_pct |-> gate_cfg[1].trigger_pct,
                        release_pct |-> gate_cfg[1].release_pct,
                        refractory_ms |-> gate_cfg[1].refractory_ms,
                        lost_hand_policy |-> gate_cfg[1].lost_hand_policy],
               g |-> GateInit])

\* The actuator of an event binding as the event operators take it.
EventActuatorOf(family) ==
    IF family = "pair"
    THEN [pair |-> TRUE, trigger_actuator |-> TRUE, release_actuator |-> TRUE]
    ELSE [pair |-> FALSE, trigger_actuator |-> FALSE, release_actuator |-> FALSE]

\* BindingBuilder.build(config): the binding it returns, or raised.
BindingBuilder_build(config) ==
    LET family  == ActuatorBuilder_build(config.actuator)
        kind    == IF config.type # "None" THEN config.type
                   ELSE IF family \in {"pair", "event"} THEN "event"
                   ELSE family
        feature == getFeature(config.input)
        gt      == GateBuilder_build(config.gate)
        made(cfg, b) == [raised |-> FALSE,
                         binding |-> Some([id |-> config.id, kind |-> kind,
                                           feature |-> feature, gate |-> gt,
                                           actuator |-> config.actuator,
                                           cfg |-> cfg, b |-> b])]
    IN  IF family = "raise" THEN [raised |-> TRUE, binding |-> None]
        ELSE IF kind = "event"
        THEN made([trigger_pct |-> config.trigger_pct, release_pct |-> config.release_pct,
                   refractory_ms |-> config.refractory_ms, op |-> config.op,
                   has_gate |-> gt # None, actuator |-> EventActuatorOf(family)],
                  EventBindingInit)
        ELSE IF kind \in {"delta", "abs"}
        THEN made([kind |-> kind, has_gate |-> gt # None, scale |-> config.sensitivity,
                   deadzone |-> DeltaDefaultDeadzone, min_value |-> AbsDefaultMin,
                   max_value |-> AbsDefaultMax],
                  DeltaBindingInit)
        ELSE [raised |-> TRUE, binding |-> None]

\* What BindingBuilder.build makes of each declaration.
Builds(decls) == [k \in 1..Len(decls) |-> BindingBuilder_build(decls[k])]

\* An index that leaves out the declarations it cannot build.
BindingIndex_init_SkipBad(decls) ==
    LET Good(r) == ~r.raised
        kept == SelectSeq(Builds(decls), Good)
    IN  [built |-> "yes", bindings |-> [k \in 1..Len(kept) |-> kept[k].binding[1]]]

\* BindingIndex.__init__: builds the declarations in order; the first build
\* that raises ends the construction, and there is no index.
BindingIndex_init(decls) ==
    IF \E k \in 1..Len(decls) : Builds(decls)[k].raised
    THEN [built |-> "raised", bindings |-> << >>]
    ELSE [built |-> "yes", bindings |-> [k \in 1..Len(decls) |-> Builds(decls)[k].binding[1]]]

\* A snapshot as the features of the index see it: the values the registered
\* features yield on it, in hundredths.
IndexSnapshot(closed, motion, curl) ==
    Some([label |-> "Right", closed |-> closed, motion |-> motion, curl |-> curl])

\* feature.getValue(left_hand, right_hand) of a registered feature; all of
\* them are built with hand "right_hand" or "left_hand" and read right_hand.
FeatureRead(name, left_hand, right_hand) ==
    LET hand == SelectHand("right_hand", left_hand, right_hand)
    IN  IF hand = None THEN None
        ELSE IF name = "right_hand.gesture.closed" THEN Some(hand[1].closed)
        ELSE IF name = "right_hand.curv.index.rel" THEN Some(hand[1].curl)
        ELSE Some(hand[1].motion)

\* gate.getState(left_hand, right_hand): a gate whose input_feature is None
\* has no getValue and evaluates as untracked.
GateRead(gt, left_hand, right_hand, now_ms) ==
    LET val == IF gt.input_feature = None THEN None
               ELSE FeatureRead(gt.input_feature[1], left_hand, right_hand)
    IN  getState(gt.g, gt.cfg, val, now_ms)

\* binding.update(left_hand, right_hand) of a binding of the index: the
\* binding afterwards, the calls made on its actuator, and whether it raised.
\* A Delta or Absolute binding raises AttributeError on a None gate, and on a
\* None feature once its gate is open.
BindingUpdate(bd, left_hand, right_hand, now_ms) ==
    LET g == IF bd.gate = None THEN [gate |-> GateInit, ret |-> TRUE]
             ELSE GateRead(bd.gate[1], left_hand, right_hand, now_ms)
        gate2 == IF bd.gate = None THEN None ELSE Some([bd.gate[1] EXCEPT !.g = g.gate])
        value == IF bd.feature = None THEN None
                 ELSE FeatureRead(bd.feature[1], left_hand, right_hand)
    IN  IF bd.kind = "event"
        THEN LET r == EventUpdate(bd.b, bd.cfg, value, g.ret, now_ms)
             IN  [binding |-> [bd EXCEPT !.gate = gate2, !.b = r.binding],
                  calls |-> r.calls, raised |-> FALSE]
        ELSE IF bd.gate = None
        THEN [binding |-> bd, calls |-> << >>,
              raised |-> DeltaAbsUngated(bd.b, bd.cfg, value).raised]
        ELSE IF g.ret /\ bd.feature = None
        THEN [binding |-> [bd EXCEPT !.gate = gate2], calls |-> << >>, raised |-> TRUE]
        ELSE LET r == DeltaAbsGated(bd.b, bd.cfg, g.ret, value)
             IN  [binding |-> [bd EXCEPT !.gate = gate2, !.b = r.binding],
                  calls |-> r.calls, raised |-> r.raised]

\* The calls cs made by binding k, each with the binding that made it.
CallsOf(k, cs) == [i \in 1..Len(cs) |-> [binding |-> k, call |-> cs[i]]]

\* BindingIndex.update(left_hand, right_hand) from binding k on, with acc the
\* effect of the bindings before it: a raising update ends the loop.
RECURSIVE BindingIndex_update(_, _, _, _, _)
BindingIndex_update(k, left_hand, right_hand, now_ms, acc) ==
    IF k > Len(acc.bindings) THEN acc
    ELSE LET r == BindingUpdate(acc.bindings[k], left_hand, right_hand, now_ms)
             acc2 == [bindings |-> [acc.bindings EXCEPT ![k] = r.binding],
                      log |-> Append(acc.log, [binding |-> k, left_hand |-> left_hand,
                                               right_hand |-> right_hand]),
                      calls |-> acc.calls \o CallsOf(k, r.calls),
                      raised |-> r.raised]
         IN  IF r.raised THEN acc2
             ELSE BindingIndex_update(k + 1, left_hand, right_hand, now_ms, acc2)

\* The gate block of the shipped move_x, move_y and left_click.
ClosedGateBlock ==
    Some([input |-> "right_hand.gesture.closed", op |-> "<",
          trigger_pct |-> GateDefaultTriggerPct, release_pct |-> GateDefaultReleasePct,
          refractory_ms |-> GateDefaultRefractoryMs, lost_hand_policy |-> "release"])

\* The gate block of the shipped scroll_y.
PinchGateBlock ==
    Some([input |-> "right_hand.gesture.pinch", op |-> ">",
          trigger_pct |-> 60, release_pct |-> 50,
          refractory_ms |-> GateDefaultRefractoryMs, lost_hand_policy |-> "release"])

\* A binding declaration with the keys the builder reads.
Declaration(id, actuator, type, input, gate_block, sensitivity) ==
    [id |-> id, actuator |-> actuator, type |-> type, input |-> input, gate |-> gate_block,
     sensitivity |-> sensitivity, trigger_pct |-> None, release_pct |-> None,
     refractory_ms |-> None, op |-> "None"]

\* Binding declarations: the shipped move_x, left_click (under the default
\* thresholds) and scroll_y; move_y without its gate block; a scroll on an
\* unregistered feature behind the closed-hand gate; an actuator key the
\* builder does not know; a type it does not know.
IndexDecls ==
    { Declaration("move_x", "mouse.move.x", "None", "right_hand.motion.left",
                  ClosedGateBlock, ScreenWidth),
      Declaration("left_click", "mouse.click.left", "None", "right_hand.curv.index.rel",
                  ClosedGateBlock, DeltaDefaultScale),
      Declaration("scroll_y", "mouse.scroll.y", "None", "hands.distance.thumb.index",
                  PinchGateBlock, ScrollSensitivity),
      Declaration("move_y", "mouse.move.y", "None", "right_hand.motion.up",
                  None, ScreenWidth),
      Declaration("scroll_x", "mouse.scroll.x", "None", "hands.distance.thumb.index",
                  ClosedGateBlock, ScrollSensitivity),
      Declaration("wheel", "mouse.wheel", "None", "right_hand.motion.up",
                  ClosedGateBlock, DeltaDefaultScale),
      Declaration("toggle", "mouse.move.x", "toggle", "right_hand.motion.left",
                  ClosedGateBlock, DeltaDefaultScale) }

\* config['bindings']: up to MaxBindings declarations in any order.
IndexConfigs == UNION { [1..n -> IndexDecls] : n \in 0..MaxBindings }

\* What hands_map.get('Right') yields in a frame of the index: no hand, an
\* open hand moving with its index finger curled, a closed hand.
IndexHands == {None, IndexSnapshot(20, 50, 90), IndexSnapshot(100, 0, 0)}

\* The index part of the state while no index is followed.
IndexIdle ==
    /\ icfg = << >>
    /\ index = [built |-> "no", bindings |-> << >>]
    /\ iframe = [left_hand |-> None, right_hand |-> None, log |-> << >>,
                 calls |-> << >>, raised |-> FALSE]

-----------------------------------------------------------------------------
(* A gate whose feature is missing or raises, and the binding behind it *)

\* What a gate's feature does when getState asks for its value: it raises, or
\* it returns a value (hundredths).
FeatureOutcomes ==
    {[raises |-> TRUE, value |-> 0]}
        \cup {[raises |-> FALSE, value |-> v] : v \in {30, 60}}

\* A getState whose try block lets the failure out: AttributeError for an
\* input_feature of None, the feature's exception otherwise.
TryGetValue_Uncaught(input_feature, outcome) ==
    IF input_feature = None \/ outcome.raises
    THEN [val |-> None, raised |-> TRUE]
    ELSE [val |-> Some(outcome.value), raised |-> FALSE]

\* The try block of getState: val stays None if input_feature has no getValue
\* (it is None) and is set to None if getValue raises.
TryGetValue(input_feature, outcome) ==
    IF input_feature = None THEN [val |-> None, raised |-> FALSE]
    ELSE IF outcome.raises THEN [val |-> None, raised |-> FALSE]
    ELSE [val |-> Some(outcome.value), raised |-> FALSE]

\* Gate.getState on a gate g with that input_feature: the gate afterwards,
\* the value returned, the val of its try block, and whether it raised.
getStateOf(input_feature, outcome, g, cfg, now_ms) ==
    LET t == TryGetValue(input_feature, outcome)
        r == getState(g, cfg, t.val, now_ms)
    IN  IF t.raised
        THEN [gate |-> g, ret |-> FALSE, val |-> None, raised |-> TRUE]
        ELSE [gate |-> r.gate, ret |-> r.ret, val |-> t.val, raised |-> FALSE]

\* What the binding's own feature yields: no value, or 0.6.
BehindValues == {None, Some(60)}

\* The gate's input_feature as GateBuilder.build found it: None for a name
\* that is not registered (the shipped scroll_y gate), else a feature.
LostFeatureConfigs ==
    { [input_feature |-> f, binding |-> b] :
        f \in {None, Some("feature")}, b \in {"delta", "abs", "event"} }

\* The Delta or Absolute binding behind the gate, as built by default.
BehindDeltaConfig(kind) ==
    [kind |-> kind, has_gate |-> TRUE, scale |-> DeltaDefaultScale,
     deadzone |-> DeltaDefaultDeadzone, min_value |-> AbsDefaultMin,
     max_value |-> AbsDefaultMax]

\* The Event binding behind the gate, as built by default on a full pair.
BehindEventConfig ==
    [trigger_pct |-> None, release_pct |-> None, refractory_ms |-> None,
     op |-> "None", has_gate |-> TRUE,
     actuator |-> [pair |-> TRUE, trigger_actuator |-> TRUE,
                   release_actuator |-> TRUE]]

\* No getState of such a gate was made yet.
LostCallInit ==
    [outcome |-> [raises |-> FALSE, value |-> 0], val |-> None, raised |-> FALSE,
     pre |-> [state |-> FALSE, t_last |-> 0], always_lost |-> TRUE]

\* This part of the state while no such gate is followed.
LostFeatureIdle ==
    /\ lcfg = [input_feature |-> None, binding |-> "delta"]
    /\ lcall = LostCallInit

\* The parts of the state that only the normalization, smoother, pipeline,
\* index and lost-feature specifications follow.
ExtrasIdle == NormIdle /\ SmootherIdle /\ PipelineIdle /\ IndexIdle /\ LostFeatureIdle

\* The gate part of the state while no gate is followed.
GateIdle ==
    /\ gcfg = ShippedGateConfig
    /\ gate = GateInit
    /\ gpre = GatePreInit
    /\ gret = FALSE
    /\ run_changes = << >>
    /\ lost_run = 0
    /\ last_flip = None
    /\ ghist = GateHistoryInit

-----------------------------------------------------------------------------
(* A gate evaluated on its own *)

InitGate ==
    /\ clock = StartMs
    /\ frames = 0
    /\ gcfg \in GateConfigs
    /\ gate = GateInit
    /\ gpre = GatePreInit
    /\ gret = FALSE
    /\ run_changes = << >>
    /\ lost_run = 0
    /\ last_flip = None
    /\ ghist = GateHistoryInit
    /\ BindingIdle
    /\ DeltaIdle
    /\ FeatureIdle
    /\ ExtrasIdle

\* What a call of getState with outcome r leaves behind.
GateEffect(r) ==
    /\ gate' = r.gate
    /\ gret' = r.ret
    /\ gpre' = [state |-> gate.state, t_last |-> gate.t_last,
                last_flip |-> last_flip, stamped |-> ghist.stamped,
                forced |-> ghist.forced]
    /\ run_changes' = RunChanges(run_changes, gate, r.gate)
    /\ lost_run' = LostRun(lost_run, r.gate)
    /\ last_flip' = LastFlip(last_flip, gcfg, gate, r.gate)
    /\ ghist' = GateHistory(ghist, gcfg, gate, r.gate)
    /\ UNCHANGED gcfg

\* One call of Gate.getState, dt milliseconds after the previous one.
GateCall(val, dt) ==
    LET now_ms == clock + dt
        r == getState(gate, gcfg, val, now_ms)
    IN  /\ frames < MaxEvals
        /\ clock' = now_ms
        /\ frames' = frames + 1
        /\ GateEffect(r)
        /\ UNCHANGED <<bvars, dvars, fvars, xvars>>

GateEvalTracked == \E v \in FeatureValues, dt \in Steps : GateCall(Some(v), dt)

GateEvalUntracked == \E dt \in Steps : GateCall(None, dt)

NextGate == GateEvalTracked \/ GateEvalUntracked

GateSpec == InitGate /\ [][NextGate]_vars

-----------------------------------------------------------------------------
(* An event binding, with or without a gate, updated frame after frame *)

\* Milliseconds that pass between two updates: one, or the binding's
\* refractory time.
EventSteps(cfg) == {1, OrDefault(cfg.refractory_ms, EventDefaultRefractoryMs)}

InitEvent ==
    /\ clock = StartMs
    /\ frames = 0
    /\ bcfg \in EventConfigs
    /\ gcfg \in IF bcfg.has_gate THEN EventGateConfigs
                ELSE {CHOOSE c \in EventGateConfigs : c.lost_hand_policy = "release"}
    /\ gate = GateInit
    /\ gpre = GatePreInit
    /\ gret = FALSE
    /\ run_changes = << >>
    /\ lost_run = 0
    /\ last_flip = None
    /\ ghist = GateHistoryInit
    /\ binding = EventBindingInit
    /\ bpre = [prev_state |-> FALSE, _last_transition_time |-> 0]
    /\ upd = [now_ms |-> 0, gate_state |-> FALSE]
    /\ calls = << >>
    /\ fired = << >>
    /\ bhist = [event |-> "None", down_at |-> None]
    /\ DeltaIdle
    /\ FeatureIdle
    /\ ExtrasIdle

\* What an update with outcome r, made at now_ms with gate result gs, leaves behind.
BindingEffect(r, now_ms, gs) ==
    /\ binding' = r.binding
    /\ calls' = r.calls
    /\ fired' = r.fired
    /\ bhist' = EventHistory(bhist, binding, calls, upd)
    /\ bpre' = [prev_state |-> binding.prev_state,
                _last_transition_time |-> binding._last_transition_time]
    /\ upd' = [now_ms |-> now_ms, gate_state |-> gs]
    /\ UNCHANGED <<bcfg, dvars, fvars, xvars>>

\* One EventBinding.update of a binding with a gate: the binding reads the
\* clock and its feature, then the gate reads the clock and its own feature.
\* Both clock readings fall in the same millisecond.  The gate's history
\* variables are not kept here.
UpdateGated(value, gval, dt) ==
    LET now_ms == clock + dt
        g == getState(gate, gcfg, gval, now_ms)
        r == EventUpdate(binding, bcfg, value, g.ret, now_ms)
    IN  /\ bcfg.has_gate
        /\ frames < MaxUpdates
        /\ clock' = now_ms
        /\ frames' = frames + 1
        /\ gate' = g.gate
        /\ UNCHANGED <<gcfg, gpre, gret, run_changes, lost_run, last_flip, ghist>>
        /\ BindingEffect(r, now_ms, g.ret)

\* One EventBinding.update of a binding without a gate: gate_state is True.
UpdateUngated(value, dt) ==
    LET now_ms == clock + dt
        r == EventUpdate(binding, bcfg, value, TRUE, now_ms)
    IN  /\ ~bcfg.has_gate
        /\ frames < MaxUpdates
        /\ clock' = now_ms
        /\ frames' = frames + 1
        /\ BindingEffect(r, now_ms, TRUE)
        /\ UNCHANGED gvars

EventUpdateGated ==
    \E value \in {None} \cup {Some(v) : v \in EventValues},
       gval \in {None} \cup {Some(v) : v \in EventGateValues},
       dt \in EventSteps(bcfg) :
        UpdateGated(value, gval, dt)

EventUpdateUngated ==
    \E value \in {None} \cup {Some(v) : v \in EventValues}, dt \in EventSteps(bcfg) :
        UpdateUngated(value, dt)

NextEvent == EventUpdateGated \/ EventUpdateUngated

EventSpec == InitEvent /\ [][NextEvent]_vars

-----------------------------------------------------------------------------
(* A Delta or Absolute binding, with or without a gate, updated frame after  *)
(* frame                                                                     *)

\* Milliseconds that pass between two updates: one, or more than the gate's
\* refractory time.
DeltaSteps == {1, GateDefaultRefractoryMs + 1}

InitDelta ==
    /\ clock = StartMs
    /\ frames = 0
    /\ dcfg \in DeltaConfigs \cup AbsConfigs
    /\ gcfg = ShippedGateConfig
    /\ gate = GateInit
    /\ gpre = GatePreInit
    /\ gret = FALSE
    /\ run_changes = << >>
    /\ lost_run = 0
    /\ last_flip = None
    /\ ghist = GateHistoryInit
    /\ BindingIdle
    /\ dbind = DeltaBindingInit
    /\ dupd = [gate_state |-> None, value |-> None, raised |-> FALSE]
    /\ dcalls = << >>
    /\ FeatureIdle
    /\ ExtrasIdle

\* What an update with outcome r leaves behind, for gate result gs (no value
\* if there is no gate) and a feature holding `value`.
DeltaEffect(r, gs, value) ==
    /\ dbind' = r.binding
    /\ dcalls' = r.calls
    /\ dupd' = [gate_state |-> gs, value |-> value, raised |-> r.raised]
    /\ UNCHANGED <<dcfg, bvars, fvars, xvars>>

\* One update of a binding with a gate: the gate reads the clock and its
\* feature, then the binding reads its own feature.  The gate's history
\* variables are not kept here.
DeltaAbsUpdateGated(value, gval, dt) ==
    LET now_ms == clock + dt
        g == getState(gate, gcfg, gval, now_ms)
        r == DeltaAbsGated(dbind, dcfg, g.ret, value)
    IN  /\ dcfg.has_gate
        /\ frames < MaxDeltaUpdates
        /\ clock' = now_ms
        /\ frames' = frames + 1
        /\ gate' = g.gate
        /\ UNCHANGED <<gcfg, gpre, gret, run_changes, lost_run, last_flip, ghist>>
        /\ DeltaEffect(r, Some(g.ret), value)

\* One update of a binding without a gate.  The exception leaves update,
\* BindingIndex.update and the frame loop: the program ends.
DeltaAbsUpdateUngated(value, dt) ==
    LET r == DeltaAbsUngated(dbind, dcfg, value)
    IN  /\ ~dcfg.has_gate
        /\ ~dupd.raised
        /\ frames < MaxDeltaUpdates
        /\ clock' = clock + dt
        /\ frames' = frames + 1
        /\ UNCHANGED gvars
        /\ DeltaEffect(r, None, value)

DeltaUpdateGated ==
    \E value \in {None} \cup {Some(v) : v \in DeltaValues},
       gval \in {None} \cup {Some(v) : v \in DeltaGateValues},
       dt \in DeltaSteps :
        /\ dcfg.kind = "delta"
        /\ DeltaAbsUpdateGated(value, gval, dt)

AbsUpdateGated ==
    \E value \in {None} \cup {Some(v) : v \in DeltaValues},
       gval \in {None} \cup {Some(v) : v \in DeltaGateValues},
       dt \in DeltaSteps :
        /\ dcfg.kind = "abs"
        /\ DeltaAbsUpdateGated(value, gval, dt)

DeltaAbsUpdateNoGate ==
    \E value \in {None} \cup {Some(v) : v \in DeltaValues}, dt \in DeltaSteps :
        DeltaAbsUpdateUngated(value, dt)

NextDelta == DeltaUpdateGated \/ AbsUpdateGated \/ DeltaAbsUpdateNoGate

DeltaSpec == InitDelta /\ [][NextDelta]_vars

-----------------------------------------------------------------------------
(* A feature of the Feature Index, queried frame after frame *)

InitFeature ==
    /\ clock = StartMs
    /\ frames = 0
    /\ gcfg = ShippedGateConfig
    /\ gate = GateInit
    /\ gpre = GatePreInit
    /\ gret = FALSE
    /\ run_changes = << >>
    /\ lost_run = 0
    /\ last_flip = None
    /\ ghist = GateHistoryInit
    /\ BindingIdle
    /\ DeltaIdle
    /\ ExtrasIdle
    /\ fcfg \in FeatureConfigs
    /\ feat = FeatureInit
    /\ fpre = FeatureInit
    /\ fframe = [left_hand |-> None, right_hand |-> None, calls |-> 0]
    /\ flast = [left_hand |-> None, right_hand |-> None]
    /\ fcall = [ret |-> None, before |-> None]

\* What a getValue call with outcome r leaves behind.
FeatureEffect(r) ==
    /\ feat' = r.feat
    /\ fpre' = feat
    /\ fcall' = [ret |-> r.ret, before |-> fcall.ret]
    /\ UNCHANGED <<fcfg, clock, gvars, bvars, dvars, xvars>>

\* The tracker produces the next frame's snapshot pair, and the feature is
\* queried with it for the first time.
FirstQuery(left_hand, right_hand) ==
    /\ frames < MaxFrames
    /\ frames' = frames + 1
    /\ flast' = [left_hand |-> fframe.left_hand, right_hand |-> fframe.right_hand]
    /\ fframe' = [left_hand |-> left_hand, right_hand |-> right_hand, calls |-> 1]
    /\ FeatureEffect(FeatureGetValue(feat, fcfg, left_hand, right_hand))

\* The feature is queried once more in the same frame, by a second gate or
\* binding that reads it, with the same snapshot pair.
RepeatQuery ==
    /\ fframe.calls = 1
    /\ fframe' = [fframe EXCEPT !.calls = 2]
    /\ FeatureEffect(FeatureGetValue(feat, fcfg, fframe.left_hand, fframe.right_hand))
    /\ UNCHANGED <<frames, flast>>

MovementFirstQuery ==
    \E left_hand \in HandOptions("Left"), right_hand \in HandOptions("Right") :
        /\ fcfg.class = "MovementFeature"
        /\ FirstQuery(left_hand, right_hand)

MovementRepeatQuery == fcfg.class = "MovementFeature" /\ RepeatQuery

PositionFirstQuery ==
    \E left_hand \in HandOptions("Left"), right_hand \in HandOptions("Right") :
        /\ fcfg.class = "PositionFeature"
        /\ FirstQuery(left_hand, right_hand)

PositionRepeatQuery == fcfg.class = "PositionFeature" /\ RepeatQuery

NextFeature ==
    \/ MovementFirstQuery
    \/ MovementRepeatQuery
    \/ PositionFirstQuery
    \/ PositionRepeatQuery

FeatureSpec == InitFeature /\ [][NextFeature]_vars

-----------------------------------------------------------------------------
(* normalize_value applied to raw values, call after call *)

InitNorm ==
    /\ clock = StartMs
    /\ frames = 0
    /\ GateIdle
    /\ BindingIdle
    /\ DeltaIdle
    /\ FeatureIdle
    /\ SmootherIdle
    /\ PipelineIdle
    /\ IndexIdle
    /\ LostFeatureIdle
    /\ ncfg \in NormRanges
    /\ ncall = [raw |-> None, out |-> None, before |-> None]

\* One call of normalize_value(raw) on the feature.
Normalize ==
    \E raw \in NormRaws(ncfg) :
        /\ ncall' = [raw |-> Some(raw),
                     out |-> Some(normalize(raw, ncfg.min_v, ncfg.max_v, NormEpsilon)),
                     before |-> IF ncall.raw = None THEN None
                                ELSE Some([raw |-> ncall.raw[1], out |-> ncall.out[1]])]
        /\ UNCHANGED <<ncfg, clock, frames, gvars, bvars, dvars, fvars, svars, pvars, ivars, lvars>>

NextNorm == Normalize

NormSpec == InitNorm /\ [][NextNorm]_vars

-----------------------------------------------------------------------------
(* A HandSmootherIndex and one HandSmoother per label given the same calls *)

InitSmooth ==
    /\ clock = StartMs
    /\ frames = 0
    /\ GateIdle
    /\ BindingIdle
    /\ DeltaIdle
    /\ FeatureIdle
    /\ NormIdle
    /\ PipelineIdle
    /\ IndexIdle
    /\ LostFeatureIdle
    /\ scfg \in { [smoothing_time |-> st] : st \in SmoothingTimes }
    /\ smoothers = EmptyDict
    /\ solo = [l \in Labels |-> << >>]
    /\ spre = [smoothers |-> EmptyDict, solo |-> [l \in Labels |-> << >>]]
    /\ scall = [op |-> "none", label |-> "none", hand |-> None, now |-> 0,
                ret |-> None, solo_ret |-> None]

\* HandSmootherIndex.smoothe(label, hand) dt milliseconds after the previous
\* call, and HandSmoother.smooth(hand, now) with the same snapshot and time on
\* the label's own smoother.
Smoothe(label, hand, dt) ==
    LET now == clock + dt
        r == smoothe(smoothers, label, hand, now, scfg.smoothing_time)
        o == smooth(solo[label], hand, now, scfg.smoothing_time)
    IN  /\ frames < MaxSmooths
        /\ clock' = now
        /\ frames' = frames + 1
        /\ smoothers' = r.smoothers
        /\ solo' = [solo EXCEPT ![label] = o.window]
        /\ spre' = [smoothers |-> smoothers, solo |-> solo]
        /\ scall' = [op |-> "smooth", label |-> label, hand |-> Some(hand), now |-> now,
                     ret |-> r.ret, solo_ret |-> o.ret]
        /\ UNCHANGED <<scfg, gvars, bvars, dvars, fvars, nvars, pvars, ivars, lvars>>

\* HandSmoother.get_smoothed() on a label's own smoother.
GetSmoothed(label) ==
    /\ frames < MaxSmooths
    /\ frames' = frames + 1
    /\ spre' = [smoothers |-> smoothers, solo |-> solo]
    /\ scall' = [op |-> "get_smoothed", label |-> label, hand |-> None, now |-> clock,
                 ret |-> None, solo_ret |-> get_smoothed(solo[label])]
    /\ UNCHANGED <<scfg, smoothers, solo, clock, gvars, bvars, dvars, fvars, nvars, pvars, ivars, lvars>>

SmootheHand == \E label \in Labels, dt \in SmoothSteps :
                   \E hand \in SmoothHands(label) : Smoothe(label, hand, dt)

PeekSmoothed == \E label \in Labels : GetSmoothed(label)

NextSmooth == SmootheHand \/ PeekSmoothed

SmoothSpec == InitSmooth /\ [][NextSmooth]_vars

-----------------------------------------------------------------------------
(* The pipeline run frame after frame, with probes in between *)

InitPipeline ==
    /\ clock = StartMs
    /\ frames = 0
    /\ GateIdle
    /\ BindingIdle
    /\ dcfg = PipeBindingConfig
    /\ dbind = DeltaBindingInit
    /\ dupd = [gate_state |-> None, value |-> None, raised |-> FALSE]
    /\ dcalls = << >>
    /\ fcfg \in PipeFeatureConfigs
    /\ feat = FeatureInit
    /\ fpre = FeatureInit
    /\ fframe = [left_hand |-> None, right_hand |-> None, calls |-> 0]
    /\ flast = [left_hand |-> None, right_hand |-> None]
    /\ fcall = [ret |-> None, before |-> None]
    /\ NormIdle
    /\ SmootherIdle
    /\ PipelineIdle
    /\ IndexIdle
    /\ LostFeatureIdle

\* The objects of the pipeline as the state holds them.
Pipe ==
    [gfeat |-> gfeat, gate |-> gate, feat |-> feat, dbind |-> dbind, act |-> pact,
     calls |-> dcalls]

\* The state holds the objects p.
PipeBecomes(p) ==
    /\ gfeat' = p.gfeat
    /\ gate' = p.gate
    /\ feat' = p.feat
    /\ dbind' = p.dbind
    /\ pact' = p.act
    /\ dcalls' = p.calls

\* The frame keeps the scenario of a steady move to the right.
Steady(right_hand) ==
    /\ steady
    /\ right_hand # None
    /\ right_hand[1].curv = 43
    /\ frames > 0 =>
           /\ fframe.right_hand # None
           /\ right_hand[1].palm = <<fframe.right_hand[1].palm[1] + 1,
                                     fframe.right_hand[1].palm[2]>>

\* One frame of the main loop, dt milliseconds after the previous one: the
\* tracker found no left hand and right_hand, and the binding is updated.
PipeFrame(right_hand, dt) ==
    LET now_ms == clock + dt
        r == PipeUpdate(Pipe, gcfg, fcfg, dcfg, None, right_hand, now_ms)
        o == PipeUpdate(shadow, gcfg, fcfg, dcfg, None, right_hand, now_ms)
    IN  /\ frames < MaxPipeFrames
        /\ clock' = now_ms
        /\ frames' = frames + 1
        /\ PipeBecomes(r.pipe)
        /\ shadow' = o.pipe
        /\ dupd' = [gate_state |-> Some(r.gate_state), value |-> r.value,
                    raised |-> FALSE]
        /\ fpre' = feat
        /\ fframe' = [left_hand |-> None, right_hand |-> right_hand, calls |-> 1]
        /\ flast' = [left_hand |-> fframe.left_hand, right_hand |-> fframe.right_hand]
        /\ fcall' = [ret |-> r.value, before |-> fcall.ret]
        /\ steady' = Steady(right_hand)
        /\ UNCHANGED <<gcfg, gpre, gret, run_changes, lost_run, last_flip, ghist, dcfg,
                       fcfg,
                       probe, bvars, nvars, svars, ivars, lvars>>

\* A probe call between two frames, returning ret.
Probed(kind, ret) ==
    /\ frames < MaxPipeFrames
    /\ probe' = [kind |-> kind, ret |-> ret]
    /\ PipeBecomes(AfterProbe(Pipe))
    /\ UNCHANGED <<clock, frames, gcfg, gpre, gret, run_changes, lost_run, last_flip, ghist,
                   dcfg, dupd, fcfg, fpre, fframe, flast, fcall, shadow, steady,
                   bvars, nvars, svars, ivars, lvars>>

FrameTracked == \E right_hand \in PipeHands, dt \in DeltaSteps : PipeFrame(right_hand, dt)

FrameUntracked == \E dt \in DeltaSteps : PipeFrame(None, dt)

ProbeFeature == Probed("feature", probe_last_value(feat))

ProbeGate == Probed("gate", probe_last_state(gate, gfeat))

ProbeBinding == Probed("binding", probe_last(Pipe))

NextPipeline ==
    FrameTracked \/ FrameUntracked \/ ProbeFeature \/ ProbeGate \/ ProbeBinding

PipelineSpec == InitPipeline /\ [][NextPipeline]_vars

-----------------------------------------------------------------------------
(* A Binding Index constructed from a configuration and updated frame after *)
(* frame                                                                    *)

InitIndex ==
    /\ clock = StartMs
    /\ frames = 0
    /\ GateIdle
    /\ BindingIdle
    /\ DeltaIdle
    /\ FeatureIdle
    /\ NormIdle
    /\ SmootherIdle
    /\ PipelineIdle
    /\ LostFeatureIdle
    /\ icfg \in IndexConfigs
    /\ index = [built |-> "no", bindings |-> << >>]
    /\ iframe = [left_hand |-> None, right_hand |-> None, log |-> << >>,
                 calls |-> << >>, raised |-> FALSE]

\* BindingIndex(cfg, feature_index, actuator_builder, gate_builder)
Construct ==
    /\ index.built = "no"
    /\ index' = BindingIndex_init(icfg)
    /\ UNCHANGED <<icfg, iframe, clock, frames, gvars, bvars, dvars, fvars, nvars,
                   svars, pvars, lvars>>

\* One frame of the main loop, dt milliseconds after the previous one:
\* binding_index.update(left_hand, right_hand) with no left hand.  An
\* exception leaves the loop, so no frame follows one that raised.
IndexFrame(right_hand, dt) ==
    LET now_ms == clock + dt
        r == BindingIndex_update(1, None, right_hand, now_ms,
                                 [bindings |-> index.bindings, log |-> << >>,
                                  calls |-> << >>, raised |-> FALSE])
    IN  /\ index.built = "yes"
        /\ ~iframe.raised
        /\ frames < MaxIndexFrames
        /\ clock' = now_ms
        /\ frames' = frames + 1
        /\ index' = [index EXCEPT !.bindings = r.bindings]
        /\ iframe' = [left_hand |-> None, right_hand |-> right_hand, log |-> r.log,
                      calls |-> r.calls, raised |-> r.raised]
        /\ UNCHANGED <<icfg, gvars, bvars, dvars, fvars, nvars, svars, pvars, lvars>>

IndexUpdate == \E right_hand \in IndexHands, dt \in DeltaSteps : IndexFrame(right_hand, dt)

NextIndex == Construct \/ IndexUpdate

IndexSpec == InitIndex /\ [][NextIndex]_vars

-----------------------------------------------------------------------------
(* A binding behind a gate whose feature is missing or may raise, updated    *)
(* frame after frame                                                         *)

InitLostFeature ==
    /\ clock = StartMs
    /\ frames = 0
    /\ lcfg \in LostFeatureConfigs
    /\ lcall = LostCallInit
    /\ gcfg \in EventGateConfigs
    /\ gate = GateInit
    /\ gpre = GatePreInit
    /\ gret = FALSE
    /\ run_changes = << >>
    /\ lost_run = 0
    /\ last_flip = None
    /\ ghist = GateHistoryInit
    /\ bcfg = IF lcfg.binding = "event" THEN BehindEventConfig
              ELSE [BehindEventConfig EXCEPT
                        !.has_gate = FALSE,
                        !.actuator = [pair |-> FALSE, trigger_actuator |-> FALSE,
                                      release_actuator |-> FALSE]]
    /\ binding = EventBindingInit
    /\ bpre = [prev_state |-> FALSE, _last_transition_time |-> 0]
    /\ upd = [now_ms |-> 0, gate_state |-> FALSE]
    /\ calls = << >>
    /\ fired = << >>
    /\ bhist = [event |-> "None", down_at |-> None]
    /\ dcfg = IF lcfg.binding = "abs" THEN BehindDeltaConfig("abs")
              ELSE IF lcfg.binding = "delta" THEN BehindDeltaConfig("delta")
              ELSE [BehindDeltaConfig("delta") EXCEPT !.has_gate = FALSE]
    /\ dbind = DeltaBindingInit
    /\ dupd = [gate_state |-> None, value |-> None, raised |-> FALSE]
    /\ dcalls = << >>
    /\ FeatureIdle
    /\ NormIdle
    /\ SmootherIdle
    /\ PipelineIdle
    /\ IndexIdle

\* What the gate's getState with outcome g leaves behind.
LostGateEffect(outcome, g) ==
    /\ gate' = g.gate
    /\ gret' = g.ret
    /\ lcall' = [outcome |-> outcome, val |-> g.val, raised |-> g.raised,
                 pre |-> [state |-> gate.state, t_last |-> gate.t_last],
                 always_lost |-> lcall.always_lost /\ g.val = None]
    /\ UNCHANGED <<lcfg, gcfg, gpre, run_changes, lost_run, last_flip, ghist>>

\* One DeltaBinding.update or AbsBinding.update behind the gate, dt
\* milliseconds after the previous one.  An exception ends the frame loop.
BehindDeltaAbs(outcome, value, dt) ==
    LET now_ms == clock + dt
        g == getStateOf(lcfg.input_feature, outcome, gate, gcfg, now_ms)
        r == IF g.raised THEN Raised(dbind)
             ELSE DeltaAbsGated(dbind, dcfg, g.ret, value)
    IN  /\ frames < MaxLostUpdates
        /\ ~lcall.raised
        /\ clock' = now_ms
        /\ frames' = frames + 1
        /\ LostGateEffect(outcome, g)
        /\ dbind' = r.binding
        /\ dcalls' = r.calls
        /\ dupd' = [gate_state |-> Some(g.ret), value |-> value, raised |-> r.raised]
        /\ UNCHANGED <<dcfg, bvars, fvars, nvars, svars, pvars, ivars>>

\* One EventBinding.update behind the gate: the binding reads its feature,
\* then the gate is evaluated.
BehindEvent(outcome, value, dt) ==
    LET now_ms == clock + dt
        g == getStateOf(lcfg.input_feature, outcome, gate, gcfg, now_ms)
        r == EventUpdate(binding, bcfg, value, g.ret, now_ms)
    IN  /\ lcfg.binding = "event"
        /\ frames < MaxLostUpdates
        /\ ~lcall.raised
        /\ clock' = now_ms
        /\ frames' = frames + 1
        /\ LostGateEffect(outcome, g)
        /\ IF g.raised
           THEN UNCHANGED <<binding, calls, fired, bpre, upd, bhist>>
           ELSE /\ binding' = r.binding
                /\ calls' = r.calls
                /\ fired' = r.fired
                /\ bpre' = [prev_state |-> binding.prev_state,
                            _last_transition_time |-> binding._last_transition_time]
                /\ upd' = [now_ms |-> now_ms, gate_state |-> g.ret]
                /\ bhist' = EventHistory(bhist, binding, calls, upd)
        /\ UNCHANGED <<bcfg, dvars, fvars, nvars, svars, pvars, ivars>>

DeltaBehindGate ==
    \E outcome \in FeatureOutcomes, value \in BehindValues, dt \in DeltaSteps :
        /\ lcfg.binding = "delta"
        /\ BehindDeltaAbs(outcome, value, dt)

AbsBehindGate ==
    \E outcome \in FeatureOutcomes, value \in BehindValues, dt \in DeltaSteps :
        /\ lcfg.binding = "abs"
        /\ BehindDeltaAbs(outcome, value, dt)

EventBehindGate ==
    \E outcome \in FeatureOutcomes, value \in BehindValues, dt \in DeltaSteps :
        BehindEvent(outcome, value, dt)

NextLostFeature == DeltaBehindGate \/ AbsBehindGate \/ EventBehindGate

LostFeatureSpec == InitLostFeature /\ [][NextLostFeature]_vars

-----------------------------------------------------------------------------
(* Properties of Gate.getState.  Each reads the latest call from the state:  *)
(* its input from gate._last_value / _last_tracked / _last_time, the gate at *)
(* its entry from gpre, the gate at its exit from gate, its result from gret *)

GateCalled == frames > 0
TrackedCall == GateCalled /\ gate._last_tracked
UntrackedCall == GateCalled /\ ~gate._last_tracked
CallValue == gate._last_value[1]
\* Time from the gate's recorded transition to the latest call.
CallElapsed == gate._last_time - gpre.t_last

\* C1: from Closed, a tracked evaluation with value v opens the gate iff
\* desired holds (v > trigger_pct for ">", v < trigger_pct for "<") and more
\* than refractory_ms has passed since t_last; when it opens t_last becomes
\* the current time, otherwise state and t_last are unchanged.
C1_OpenIffDesiredAfterRefractory ==
    (TrackedCall /\ ~gpre.state) =>
        LET desired == \/ gcfg.op = ">" /\ CallValue > gcfg.trigger_pct
                       \/ gcfg.op # ">" /\ CallValue < gcfg.trigger_pct
            opens == desired /\ CallElapsed > gcfg.refractory_ms
        IN  /\ gate.state <=> opens
            /\ gret = gate.state
            /\ gate.t_last = IF opens THEN gate._last_time ELSE gpre.t_last

\* A closed gate that had closed by a tracked evaluation opens again, after
\* a refractory time that is not zero.
C1_Witness ==
    /\ TrackedCall /\ ~gpre.state /\ gate.state
    /\ gpre.t_last >= StartMs
    /\ gcfg.refractory_ms > 0

\* C2: from Open, a tracked evaluation with value v closes the gate iff
\* release_ok holds (v < release_pct for ">", v > release_pct for "<") and
\* more than refractory_ms has passed since t_last; so 0.3 closes a gate with
\* release_pct 0.45 once the refractory time is over.
C2_CloseIffReleaseAfterRefractory ==
    (TrackedCall /\ gpre.state) =>
        LET release_ok == \/ gcfg.op = ">" /\ CallValue < gcfg.release_pct
                          \/ gcfg.op # ">" /\ CallValue > gcfg.release_pct
            closes == release_ok /\ CallElapsed > gcfg.refractory_ms
        IN  /\ ~gate.state <=> closes
            /\ gret = gate.state
            /\ gate.t_last = IF closes THEN gate._last_time ELSE gpre.t_last

\* The spec's example: op ">", release_pct 0.45, value 0.3, refractory over.
C2_Witness ==
    /\ TrackedCall /\ gpre.state /\ ~gate.state
    /\ gcfg.op = ">" /\ gcfg.release_pct = 45 /\ CallValue = 30
    /\ gcfg.refractory_ms > 0

\* C3: for op ">" with release_pct < trigger_pct, a tracked evaluation whose
\* value lies strictly between the two thresholds leaves the state as it was,
\* Open or Closed, whatever time has passed.
C3_DeadBandKeepsState ==
    ( /\ TrackedCall
      /\ gcfg.op = ">" /\ gcfg.release_pct < gcfg.trigger_pct
      /\ gcfg.release_pct < CallValue /\ CallValue < gcfg.trigger_pct ) =>
        /\ gate.state = gpre.state
        /\ gate.t_last = gpre.t_last

\* 0.47 between 0.45 and 0.5 reaches an open gate whose refractory time is over.
C3_Witness ==
    /\ TrackedCall /\ gcfg.op = ">" /\ CallValue = 47
    /\ gcfg.release_pct = 45 /\ gcfg.trigger_pct = 50
    /\ gpre.state /\ gate.state
    /\ CallElapsed > gcfg.refractory_ms

\* C4: within a run of tracked evaluations, two consecutive state changes are
\* more than refractory_ms apart.
C4_MinimumDwell ==
    \A i \in 1..(Len(run_changes) - 1) :
        run_changes[i + 1] - run_changes[i] > gcfg.refractory_ms

\* A gate that changed state twice in one run of tracked evaluations.
C4_Witness ==
    /\ Len(run_changes) >= 2
    /\ gcfg.refractory_ms > 0

\* C5: with policy "release", an untracked evaluation of an open gate closes
\* it and returns Closed in that evaluation, however little time has passed.
C5_ReleaseClosesAtOnce ==
    (UntrackedCall /\ gcfg.lost_hand_policy = "release" /\ gpre.state) =>
        ~gate.state /\ gret = FALSE

\* The hand is lost within the refractory time of the gate's opening.
C5_Witness ==
    /\ UntrackedCall /\ gcfg.lost_hand_policy = "release" /\ gpre.state
    /\ ~gate.state
    /\ CallElapsed =< gcfg.refractory_ms

\* C6: with policy "hold", an untracked evaluation returns the current state
\* and changes neither the state nor t_last.
C6_HoldKeepsStateAndStamp ==
    (UntrackedCall /\ gcfg.lost_hand_policy = "hold") =>
        /\ gret = gpre.state
        /\ gate.state = gpre.state
        /\ gate.t_last = gpre.t_last

\* An open gate held over two untracked evaluations in a row.
C6_Witness ==
    /\ UntrackedCall /\ gcfg.lost_hand_policy = "hold"
    /\ lost_run >= 2 /\ gpre.state /\ gate.state

\* C7: with policy "true", every untracked evaluation leaves the gate Open
\* and returns Open, whatever the state before and the time passed.
C7_TrueForcesOpen ==
    (UntrackedCall /\ gcfg.lost_hand_policy = "true") =>
        gate.state /\ gret = TRUE

\* A gate closed by a tracked evaluation is forced open within the
\* refractory time of that close.
C7_Witness ==
    /\ UntrackedCall /\ gcfg.lost_hand_policy = "true"
    /\ ~gpre.state /\ gate.state
    /\ gpre.t_last >= StartMs
    /\ CallElapsed =< gcfg.refractory_ms

\* C8, as claimed: with policy "toggle", an untracked evaluation flips the
\* state iff at least refractory_ms has passed since the last flip.
C8_ToggleAtLeastRefractory ==
    (UntrackedCall /\ gcfg.lost_hand_policy = "toggle" /\ gpre.last_flip # None) =>
        ( gate.state # gpre.state <=>
            gate._last_time - gpre.last_flip[1] >= gcfg.refractory_ms )

\* C8, amended: with policy "toggle", an untracked evaluation flips the state
\* iff more than refractory_ms has passed since t_last (the time of the last
\* flip or tracked transition, 0 at first); a flip sets t_last to the current
\* time, otherwise state and t_last are unchanged.
C8_ToggleAfterRefractory ==
    (UntrackedCall /\ gcfg.lost_hand_policy = "toggle") =>
        LET flips == CallElapsed > gcfg.refractory_ms
        IN  /\ gate.state # gpre.state <=> flips
            /\ gret = gate.state
            /\ gate.t_last = IF flips THEN gate._last_time ELSE gpre.t_last

\* An untracked evaluation exactly refractory_ms after a flip: no second flip.
C8_Witness ==
    /\ UntrackedCall /\ gcfg.lost_hand_policy = "toggle"
    /\ gpre.last_flip = Some(gpre.t_last)
    /\ CallElapsed = gcfg.refractory_ms
    /\ gcfg.refractory_ms > 0
    /\ gate.state = gpre.state

-----------------------------------------------------------------------------
(* Properties of EventBinding.update.  Each reads the latest update from the *)
(* state: its inputs from upd and binding._last_value, the binding at its    *)
(* entry from bpre and at its exit from binding, its calls from calls/fired. *)

Updated == frames > 0 /\ upd.now_ms > 0
WasActive == bpre.prev_state
IsActive == binding.prev_state
\* The refractory time the binding is configured with.
BindingRefractoryMs ==
    IF bcfg.refractory_ms = None THEN EventDefaultRefractoryMs
    ELSE bcfg.refractory_ms[1]
\* Time from the binding's recorded transition to the latest update.
UpdateElapsed == upd.now_ms - bpre._last_transition_time

\* C9: an active event binding whose gate is open (or absent) and whose
\* feature is tracked does not become inactive, and emits no "up", until more
\* than refractory_ms has passed since its activation.
C9_NoReleaseWithinRefractory ==
    ( /\ Updated /\ WasActive
      /\ upd.gate_state /\ binding._last_value # None
      /\ UpdateElapsed =< BindingRefractoryMs ) =>
        /\ IsActive
        /\ calls # <<"up">>

\* C10: with a trigger/release pair, "down" is sent in exactly the updates
\* that take the binding from inactive to active and "up" in exactly those
\* that take it from active to inactive; an update that leaves it as it was
\* makes no actuator call.  The pair passes each on to the half it holds.
C10_EventsOnEdgesOnly ==
    (Updated /\ bcfg.actuator.pair) =>
        LET rising  == ~WasActive /\ IsActive
            falling == WasActive /\ ~IsActive
        IN  /\ calls = IF rising THEN <<"down">>
                       ELSE IF falling THEN <<"up">> ELSE << >>
            /\ fired = IF rising /\ bcfg.actuator.trigger_actuator
                       THEN <<"trigger_actuator">>
                       ELSE IF falling /\ bcfg.actuator.release_actuator
                       THEN <<"release_actuator">> ELSE << >>

\* A full pair's release actuator fires as the binding goes inactive after a
\* refractory time spent active.
C10_Witness ==
    /\ Updated /\ bcfg.actuator.pair
    /\ bcfg.actuator.trigger_actuator /\ bcfg.actuator.release_actuator
    /\ WasActive /\ ~IsActive
    /\ UpdateElapsed > BindingRefractoryMs
    /\ calls = <<"up">> /\ fired = <<"release_actuator">>

\* The release the binding makes in an update: it records the event "up" and,
\* if its actuator is a trigger/release pair, calls trigger('up') on it; a
\* single event actuator has no release action and gets no call.
ReleaseEmitted ==
    /\ binding._last_time = "up"
    /\ calls = IF bcfg.actuator.pair THEN <<"up">> ELSE << >>

\* C11: an active event binding whose gate reports closed on an update is
\* inactive after that update and emits its release ("up") in it, whatever
\* the feature value, the binding's thresholds and the time since its
\* activation.
C11_ClosedGateForcesRelease ==
    (Updated /\ WasActive /\ ~upd.gate_state) =>
        /\ ~IsActive
        /\ binding._last_state = Some(FALSE)
        /\ ReleaseEmitted

\* The gate closes within the refractory time of an active pair binding whose
\* feature value is still beyond its trigger threshold: "up" is sent.
C11_Witness ==
    /\ Updated /\ WasActive /\ ~upd.gate_state
    /\ bcfg.has_gate /\ bcfg.actuator.pair
    /\ bcfg.op = ">" /\ binding._last_value = Some(90)
    /\ UpdateElapsed =< BindingRefractoryMs
    /\ ~IsActive /\ calls = <<"up">>

\* C12: an event binding whose gate is open (or absent) and whose feature
\* returns no value is inactive after the update; if it was active the update
\* emits its release ("up"), and if it was not the update emits nothing.
C12_ValuelessIsReleased ==
    (Updated /\ upd.gate_state /\ binding._last_value = None) =>
        /\ ~IsActive
        /\ binding._last_state = Some(FALSE)
        /\ WasActive => ReleaseEmitted
        /\ ~WasActive => (calls = << >> /\ binding._last_time = "None")

\* An active pair binding behind an open gate loses its feature value within
\* its refractory time: "up" is sent.
C12_Witness ==
    /\ Updated /\ upd.gate_state /\ binding._last_value = None
    /\ bcfg.has_gate /\ bcfg.actuator.pair
    /\ WasActive /\ ~IsActive
    /\ UpdateElapsed =< BindingRefractoryMs
    /\ calls = <<"up">>

-----------------------------------------------------------------------------
(* Properties of DeltaBinding.update and AbsBinding.update.  Each reads the  *)
(* latest update from the state: the gate's result and the feature's value   *)
(* from dupd, the binding at its exit from dbind, its calls from dcalls.     *)

DeltaUpdated == frames > 0 /\ (dupd.raised \/ dupd.gate_state # None)
GateClosed == dupd.gate_state = Some(FALSE)
GateOpen == dupd.gate_state = Some(TRUE)
\* scaled = min_value + (max_value - min_value) * value, in hundredths
AbsCommand == dcfg.min_value * 100 + (dcfg.max_value - dcfg.min_value) * dupd.value[1]
\* delta = value * scale, in hundredths
DeltaCommand == dupd.value[1] * dcfg.scale

\* C13: a Delta or Absolute binding built without a gate block is evaluated
\* as if its gate were open: whenever its feature has a value the update
\* completes and emits its actuator command (a Delta binding, if the value is
\* beyond its deadzone).
C13_UngatedEvaluatedAsOpen ==
    (DeltaUpdated /\ ~dcfg.has_gate /\ dupd.value # None) =>
        /\ ~dupd.raised
        /\ dcalls = IF dcfg.kind = "abs" THEN <<AbsCommand>>
                    ELSE IF abs(dupd.value[1]) > dcfg.deadzone THEN <<DeltaCommand>>
                    ELSE << >>

\* C14: a Delta or Absolute binding makes no actuator call in an update where
\* its gate is closed or its feature has no value; it reports state False in
\* the first case, and state True with value None in the second.
C14_NoCallWhenClosedOrValueless ==
    (DeltaUpdated /\ (GateClosed \/ dupd.value = None)) =>
        /\ dcalls = << >>
        /\ GateClosed => dbind._last_state = Some(FALSE)
        /\ ~GateClosed =>
              dbind = [_last_state |-> Some(TRUE), _last_value |-> None]

\* C15: on an update with gate open and feature value v, a Delta binding
\* emits exactly one command, v * scale, if |v| > deadzone, and none if
\* |v| <= deadzone; either way it reports state True.
C15_DeltaCommandBeyondDeadzone ==
    (DeltaUpdated /\ dcfg.kind = "delta" /\ GateOpen /\ dupd.value # None) =>
        /\ dcalls = IF abs(dupd.value[1]) > dcfg.deadzone THEN <<DeltaCommand>>
                    ELSE << >>
        /\ dbind._last_state = Some(TRUE)

\* A value on the deadzone (0.2) emits nothing, state True.
C15_Witness ==
    /\ DeltaUpdated /\ dcfg.kind = "delta" /\ GateOpen
    /\ dcfg.deadzone = 20 /\ dupd.value = Some(20)
    /\ dcalls = << >> /\ dbind._last_state = Some(TRUE)

\* C16: on an update with gate open and feature value v, zero included, an
\* Absolute binding emits exactly one command, min + (max - min) * v, and
\* reports it with state True; no value is held back by a deadzone.
C16_AbsCommandEveryUpdate ==
    (DeltaUpdated /\ dcfg.kind = "abs" /\ GateOpen /\ dupd.value # None) =>
        /\ dcalls = <<AbsCommand>>
        /\ dbind = [_last_state |-> Some(TRUE), _last_value |-> Some(AbsCommand)]

\* A value of zero over the range 10..30 emits the command 10.
C16_Witness ==
    /\ DeltaUpdated /\ dcfg.kind = "abs" /\ GateOpen
    /\ dcfg.min_value = 10 /\ dcfg.max_value = 30 /\ dupd.value = Some(0)
    /\ dcalls = <<1000>>

-----------------------------------------------------------------------------
(* Properties of the features.  Each reads the latest getValue call from the *)
(* state: the frame's snapshot pair from fframe, the frame before from       *)
(* flast, the feature at the call's entry from fpre and at its exit from     *)
(* feat, the value returned from fcall.                                      *)

Queried == frames > 0 /\ fframe.calls > 0
IsMovement == fcfg.class = "MovementFeature"
\* The hand the feature's registered name selects, in a snapshot pair.
NamedHand(pair) ==
    IF fcfg.hand = "left_hand" THEN pair.left_hand ELSE pair.right_hand
\* The other hand of the pair.
OtherHand(pair) ==
    IF fcfg.hand = "left_hand" THEN pair.right_hand ELSE pair.left_hand
\* clamp((d . axis) / range_norm, -1, 1) in hundredths, d the displacement of
\* the named hand's palm center, in screen units, from the frame before.
ClampedProjection ==
    LET s  == sArray2(NamedHand(fframe)[1].palm)
        sp == sArray2(NamedHand(flast)[1].palm)
        d  == <<s[1] - sp[1], s[2] - sp[2]>>
    IN  Clamp((dot(d, fcfg.axis_vec) * 100) \div fcfg.range_norm)

\* C17: a feature registered under right_hand.* or left_hand.* returns None
\* whenever the hand its name selects is absent from the snapshot pair, also
\* when the other hand is present.
C17_NoneWhenNamedHandAbsent ==
    (Queried /\ NamedHand(fframe) = None) => fcall.ret = None

\* C18: a second call of a Movement feature's getValue with the frame's
\* snapshot pair returns what the first call returned and leaves prev_palm,
\* prev_hand, _last_value and _last_raw_value as the first call left them.
C18_SecondCallSameValue ==
    (Queried /\ IsMovement /\ fframe.calls = 2) =>
        /\ fcall.ret = fcall.before
        /\ feat = fpre

\* The second call in a frame whose palm center moved: both calls return the
\* displacement's value, not zero.
C18_Witness ==
    /\ Queried /\ IsMovement /\ fframe.calls = 2
    /\ NamedHand(fframe) # None /\ NamedHand(flast) # None
    /\ fcall.before = Some(50) /\ fcall.ret = Some(50)
    /\ feat.prev_palm = Some(NamedHand(fframe)[1].palm)

\* C19: a Movement feature queried in every frame returns 0.0 in the first
\* frame in which its hand is present, and in the first frame in which it is
\* present again after frames in which it was absent.
C19_FirstObservationNeutral ==
    ( /\ Queried /\ IsMovement
      /\ NamedHand(fframe) # None
      /\ NamedHand(flast) = None ) =>
        fcall.ret = Some(0)

\* C20, for the right_hand.* Movement features: in the second of two
\* consecutive frames with the hand present the feature returns
\* clamp((d . axis) / range_norm, -1, 1).
C20_ClampedProjectedDisplacement ==
    ( /\ Queried /\ IsMovement /\ fcfg.hand = "right_hand"
      /\ NamedHand(fframe) # None
      /\ NamedHand(flast) # None ) =>
        fcall.ret = Some(ClampedProjection)

-----------------------------------------------------------------------------
(* Claims about normalize_value *)

NormCalled == ncall.raw # None
NormRange == ncfg.max_v - ncfg.min_v

\* The value normalize_value returned is (raw - min) / (max - min), or 0 for a
\* range narrower than 1e-6; it is 0 at raw = 0 and 1 at raw = 1 under the
\* default calibration.
NormLinear ==
    /\ abs(NormRange) >= NormEpsilon
           => ncall.out[1] * NormRange = (ncall.raw[1] - ncfg.min_v) * 100
    /\ abs(NormRange) < NormEpsilon => ncall.out[1] = 0
    /\ (ncfg.min_v = 0 /\ ncfg.max_v = NormOne)
           => /\ ncall.raw[1] = 0 => ncall.out[1] = 0
              /\ ncall.raw[1] = NormOne => ncall.out[1] = 100

\* The call before was given a smaller raw value and returned a larger value.
NormDecreased ==
    (ncall.before # None /\ ncall.before[1].raw < ncall.raw[1])
        => ncall.before[1].out > ncall.out[1]

\* C26, as stated: normalize_value(raw) = (raw - min) / (max - min) when
\* |max - min| >= 1e-6 and 0 otherwise, unclamped; 0 -> 0 and 1 -> 1 under
\* min = 0, max = 1; and strictly decreasing in raw whenever min > max.
C26_StrictlyDecreasingWheneverInverted ==
    NormCalled => /\ NormLinear
                  /\ ncfg.min_v > ncfg.max_v => NormDecreased

\* C26, amended: normalize_value(raw) = (raw - min) / (max - min) when
\* |max - min| >= 1e-6 and 0 otherwise, unclamped; 0 -> 0 and 1 -> 1 under
\* min = 0, max = 1; strictly decreasing in raw when min - max >= 1e-6, and
\* constantly 0 when 0 < min - max < 1e-6.
C26_NormalizeLinearUnclamped ==
    NormCalled => /\ NormLinear
                  /\ ncfg.min_v - ncfg.max_v >= NormEpsilon => NormDecreased

\* An inverted range of exactly 1e-6, two calls with increasing raw values,
\* and a result above 1.
C26_Witness ==
    /\ NormCalled
    /\ ncfg.min_v - ncfg.max_v = NormEpsilon
    /\ ncall.before # None
    /\ ncall.before[1].raw < ncall.raw[1]
    /\ ncall.out[1] > 100

-----------------------------------------------------------------------------
(* Claims about the smoother *)

Smoothed == scall.op = "smooth"

\* The window of the label's smoother in the index when the call began.
WindowBefore ==
    IF scall.label \in DOMAIN spre.smoothers THEN spre.smoothers[scall.label]
    ELSE << >>

\* The entry the latest smooth call pushed.
Pushed == [t |-> scall.now, hand |-> scall.hand[1]]

Cutoff == scall.now - scfg.smoothing_time

\* window is before with the pushed entry appended and exactly the entries
\* older than the cutoff removed; its newest entry is the pushed one.
PushedAndPruned(before, window) ==
    LET Kept(e) == e.t >= Cutoff
    IN  /\ window # << >>
        /\ window[Len(window)] = Pushed
        /\ \A i \in 1..Len(window) : window[i].t >= Cutoff
        /\ window = SelectSeq(Append(before, Pushed), Kept)

\* C27: after smooth(hand, now) the window's newest entry is the snapshot just
\* pushed and the window holds exactly the entries with timestamp
\* >= now - smoothing_time: older ones are removed, one at the cutoff is kept.
C27_WindowAfterSmooth ==
    Smoothed => /\ PushedAndPruned(WindowBefore, smoothers[scall.label])
                /\ PushedAndPruned(spre.solo[scall.label], solo[scall.label])

\* A smooth call that removed an entry and kept one exactly at the cutoff.
C27_Witness ==
    /\ Smoothed
    /\ Len(smoothers[scall.label]) >= 2
    /\ Len(smoothers[scall.label]) < Len(WindowBefore) + 1
    /\ smoothers[scall.label][1].t = Cutoff

\* The sum of coordinate c of the palm centers in window.
RECURSIVE SumCoord(_, _)
SumCoord(window, c) ==
    IF window = << >> THEN 0
    ELSE Head(window).hand.palm[c] + SumCoord(Tail(window), c)

\* ret is what the claim says of get_smoothed on window.
WeightedAverage(window, ret) ==
    /\ ret = None <=> window = << >>
    /\ window # << >> =>
           LET newest == window[Len(window)].hand.palm
           IN  /\ ret[1].palm.by = Len(window) + 2
               /\ \A c \in 1..2 :
                      ret[1].palm.of[c] = 3 * newest[c] + (SumCoord(window, c) - newest[c])

\* C28: over a window of n >= 1 entries the smoothed landmark is
\* (3 * newest + sum of the others) / (n + 2), and get_smoothed returns None
\* exactly when the window is empty.
C28_NewestWeighsThree ==
    /\ Smoothed => /\ WeightedAverage(smoothers[scall.label], scall.ret)
                   /\ WeightedAverage(solo[scall.label], scall.solo_ret)
    /\ scall.op = "get_smoothed" => WeightedAverage(solo[scall.label], scall.solo_ret)

\* A smoothed snapshot over three entries that are not all equal.
C28_Witness ==
    /\ Smoothed
    /\ Len(smoothers[scall.label]) = 3
    /\ smoothers[scall.label][1].hand # smoothers[scall.label][3].hand
    /\ scall.ret # None

\* C29: smoothing under one label leaves every other label's window as it
\* was, and each label's window and result in the index are those of a
\* smoother that was given that label's snapshots only.
C29_LabelsIsolated ==
    Smoothed => /\ DOMAIN smoothers = DOMAIN spre.smoothers \cup {scall.label}
                /\ \A l \in DOMAIN spre.smoothers \ {scall.label} :
                       smoothers[l] = spre.smoothers[l]
                /\ \A l \in DOMAIN smoothers : smoothers[l] = solo[l]
                /\ scall.ret = scall.solo_ret

\* A smooth call under one label while the other label's window holds entries
\* with a different palm center.
C29_Witness ==
    /\ Smoothed
    /\ DOMAIN smoothers = Labels
    /\ \E l \in Labels \ {scall.label} :
           /\ Len(smoothers[l]) >= 1
           /\ smoothers[l][1].hand.palm # scall.hand[1].palm
    /\ Len(smoothers[scall.label]) >= 2

-----------------------------------------------------------------------------
(* Claims about the pipeline *)

\* C21: with move_x scaled by 1920 and range_norm = 0.02, while gesture-closed
\* stays at 0.2 and the right palm center moves 0.01 to the right per frame,
\* the first frame emits no delta (the feature is the neutral 0.0) and every
\* later frame emits one delta call with value 960.
C21_SteadyMoveEmits960 ==
    (steady /\ frames >= 1 /\ fcfg.range_norm = 2)
        => IF frames = 1
           THEN dcalls = << >> /\ dupd.value = Some(0)
           ELSE dcalls = <<960 * 100>>

\* The pipeline never probed, as the state would hold it.
Unprobed ==
    [gfeat |-> shadow.gfeat, gate |-> shadow.gate, feat |-> shadow.feat,
     dbind |-> shadow.dbind, act |-> shadow.act, calls |-> shadow.calls]

-----------------------------------------------------------------------------
(* Claims about the Binding Index *)

IndexUpdated == index.built = "yes" /\ frames >= 1

\* C22: one BindingIndex.update evaluates every binding exactly once, in
\* declaration order, each with the frame's snapshot pair, so the frame's
\* actuator calls are in declaration order, on every frame.
C22_EveryBindingOnceInOrder ==
    IndexUpdated =>
        /\ Len(iframe.log) = Len(icfg)
        /\ \A k \in 1..Len(iframe.log) :
               /\ iframe.log[k].binding = k
               /\ index.bindings[k].id = icfg[k].id
               /\ iframe.log[k].left_hand = iframe.left_hand
               /\ iframe.log[k].right_hand = iframe.right_hand
        /\ \A i, j \in 1..Len(iframe.calls) :
               i < j => iframe.calls[i].binding <= iframe.calls[j].binding

\* The declaration names a feature, or a gate input, that is not registered.
NamesUnknownFeature(decl) ==
    \/ decl.input \notin RegisteredFeatures
    \/ decl.gate # None /\ decl.gate[1].input \notin RegisteredFeatures

\* C23: building a binding whose input, or whose gate's input, is not a
\* registered feature fails at build time, and no binding or gate holds a
\* None feature.
C23_UnknownFeatureFailsBuild ==
    index.built # "no" =>
        /\ (\E k \in 1..Len(icfg) : NamesUnknownFeature(icfg[k])) => index.built = "raised"
        /\ \A k \in 1..Len(index.bindings) :
               /\ index.bindings[k].feature # None
               /\ index.bindings[k].gate # None
                      => index.bindings[k].gate[1].input_feature # None

\* The actuator keys of the builder's mouse branches.
KnownActuatorKeys ==
    {"mouse.move.x", "mouse.move.y", "mouse.scroll.x", "mouse.scroll.y",
     "mouse.click.left.down", "mouse.click.left.up", "mouse.click.right.down",
     "mouse.click.right.up", "mouse.click.middle.down", "mouse.click.middle.up",
     "mouse.click.left", "mouse.click.right", "mouse.click.middle",
     "mouse.pos.x", "mouse.pos.y"}

\* The declaration has an unknown actuator key or an unknown type.
BadDeclaration(decl) ==
    \/ decl.actuator \notin KnownActuatorKeys
    \/ decl.type \notin {"None", "event", "delta", "abs"}

\* C24: if any declaration has an unknown actuator key or an unknown type,
\* the construction of the Binding Index raises and there is no index; the
\* bad entry is never skipped with the others kept.
C24_BadDeclarationAbortsIndex ==
    (index.built # "no" /\ \E k \in 1..Len(icfg) : BadDeclaration(icfg[k]))
        => index.built = "raised" /\ index.bindings = << >>

\* A construction that raised on a bad declaration that followed a good one.
C24_Witness ==
    /\ index.built = "raised"
    /\ Len(icfg) = 2
    /\ ~BadDeclaration(icfg[1])
    /\ ~NamesUnknownFeature(icfg[1])
    /\ BadDeclaration(icfg[2])

\* C25: on a constructed index, BindingIndex.update never raises and
\* evaluates every binding of the list on every frame.
C25_UpdateNeverRaises ==
    IndexUpdated => /\ ~iframe.raised
                    /\ { iframe.log[k].binding : k \in 1..Len(iframe.log) }
                           = 1..Len(index.bindings)


-----------------------------------------------------------------------------
(* Claims about the gated Delta binding on a Movement feature *)

\* scale * clamp((d . axis) / range_norm, -1, 1), d the displacement of the
\* right palm center, in screen units, from the frame before to this frame.
FrameToFrameDelta ==
    LET s  == sArray2(fframe.right_hand[1].palm)
        sp == sArray2(flast.right_hand[1].palm)
        d  == <<s[1] - sp[1], s[2] - sp[2]>>
    IN  dcfg.scale * Clamp(normalize_value(dot(d, fcfg.axis_vec), 0, fcfg.range_norm))

\* C31: every delta the gated Delta binding emits is scale times the clamped
\* projected displacement between this frame's palm center and the palm
\* center of the frame immediately before, also in the first update after
\* the gate re-opens with the hand present throughout (here for two
\* consecutive frames whose snapshots differ).
C31_DeltaIsFrameToFrame ==
    ( /\ frames >= 2
      /\ dcalls # << >>
      /\ fframe.right_hand # None
      /\ flast.right_hand # None
      /\ fframe.right_hand # flast.right_hand ) =>
        dcalls = <<FrameToFrameDelta>>

\* C32: in the first frame in which the right hand is back after frames
\* without it, the Movement feature, if the open gate lets the binding read
\* it, produces the neutral 0.0, and no delta is emitted.
C32_NeutralAfterReappearance ==
    ( /\ frames >= 2
      /\ fframe.right_hand # None
      /\ flast.right_hand = None
      /\ dupd.gate_state = Some(TRUE) ) =>
        /\ dupd.value = Some(0)
        /\ dcalls = << >>


-----------------------------------------------------------------------------
(* Claims about the Delta binding's introspection values *)

\* C39: after every update of a gated Delta binding, binding_value (the
\* binding's _last_value) is the delta passed to the actuator in that update,
\* or None if that update made no actuator call: gate closed, feature
\* without value, or value inside the deadzone.
C39_BindingValueIsEmittedDelta ==
    (DeltaUpdated /\ dcfg.kind = "delta" /\ dcfg.has_gate) =>
        dbind._last_value = IF dcalls = << >> THEN None ELSE Some(dcalls[1])


-----------------------------------------------------------------------------
(* Claims about the events an Event binding sends over a run of updates.     *)
(* bhist holds what was sent before the latest update.                       *)

\* C33: with a trigger/release pair the events sent over any run of updates
\* alternate down, up, down, up, ... starting with down: an update sends at
\* most one event, a "down" follows no event or an "up", and an "up" follows
\* a "down".
C33_DownUpAlternate ==
    (Updated /\ bcfg.actuator.pair) =>
        /\ calls \in {<< >>, <<"down">>, <<"up">>}
        /\ calls = <<"down">> => bhist.event \in {"None", "up"}
        /\ calls = <<"up">> => bhist.event = "down"

\* The third event of a run: a "down" after an "up" that followed a "down".
C33_Witness ==
    /\ Updated /\ bcfg.actuator.pair
    /\ calls = <<"down">>
    /\ bhist.event = "up"
    /\ bhist.down_at # None

\* C34: an activation ("down") comes more than refractory_ms after the
\* activation before it, whatever feature values, gate closures and hand
\* losses came in between.
C34_DownsMoreThanRefractoryApart ==
    (Updated /\ binding._last_time = "down" /\ bhist.down_at # None) =>
        upd.now_ms - bhist.down_at[1] > BindingRefractoryMs

\* A binding of refractory time above 1 ms, released by its gate, is
\* activated again refractory_ms + 1 after its previous activation.
C34_Witness ==
    /\ Updated /\ binding._last_time = "down" /\ bhist.down_at # None
    /\ bcfg.has_gate
    /\ BindingRefractoryMs > 1
    /\ upd.now_ms - bhist.down_at[1] = BindingRefractoryMs + 1

\* C35: with a single event actuator, the update that activates the binding
\* calls trigger() once, with no event type, and no other update calls the
\* actuator; the update that deactivates it records "up" and calls nothing.
C35_SingleActuatorTriggersOnly ==
    (Updated /\ ~bcfg.actuator.pair) =>
        LET rising  == ~WasActive /\ IsActive
            falling == WasActive /\ ~IsActive
        IN  /\ calls = IF rising THEN <<"None">> ELSE << >>
            /\ fired = IF rising THEN <<"actuator">> ELSE << >>
            /\ falling => binding._last_time = "up"

\* A binding with a single event actuator goes inactive after it had called
\* trigger(): no call is made.
C35_Witness ==
    /\ Updated /\ ~bcfg.actuator.pair
    /\ WasActive /\ ~IsActive
    /\ bhist.down_at # None
    /\ binding._last_time = "up"
    /\ calls = << >> /\ fired = << >>


-----------------------------------------------------------------------------
(* Claims about the gate's timestamp over lost-hand evaluations.  ghist and  *)
(* gpre hold the state changes observed, apart from t_last.                  *)

\* The time of the latest state change made by a tracked evaluation or a
\* "toggle" flip, 0 if there was none.
StampedAt(st) == IF st = None THEN 0 ELSE st[1]

\* C36: an untracked evaluation under policy "release" or "true" leaves
\* t_last as it was, also when it changes the state; t_last stays the time of
\* the latest tracked transition.  So on the tracked evaluation right after a
\* forced close, with desired true, the gate opens iff more than
\* refractory_ms has passed since the latest tracked transition, whatever
\* the time since the forced close.
C36_ForcedChangeKeepsStamp ==
    /\ (UntrackedCall /\ gcfg.lost_hand_policy \in {"release", "true"}) =>
           /\ gate.t_last = gpre.t_last
           /\ gate.t_last = StampedAt(ghist.stamped)
    /\ ( /\ TrackedCall /\ gcfg.lost_hand_policy = "release"
         /\ gpre.forced # None /\ ~gpre.state
         /\ Desired(gcfg.op, CallValue, gcfg.trigger_pct) ) =>
           ( gate.state <=>
               gate._last_time - StampedAt(gpre.stamped) > gcfg.refractory_ms )

\* A gate opened by a tracked evaluation and closed by a lost hand opens
\* again within the refractory time of the forced close.
C36_Witness ==
    /\ TrackedCall /\ gcfg.lost_hand_policy = "release"
    /\ gpre.forced # None /\ ~gpre.state /\ gate.state
    /\ gpre.stamped # None
    /\ gcfg.refractory_ms > 0
    /\ gate._last_time - gpre.forced[1] < gcfg.refractory_ms

\* C37: under policy "toggle" the flips and the tracked transitions share
\* t_last: an untracked evaluation flips the gate iff more than refractory_ms
\* has passed since the latest flip or tracked transition, in every untracked
\* evaluation of a run and not only the first; t_last is then the time of
\* whichever came last, and a flip comes more than refractory_ms after the
\* flip before it.
C37_ToggleFlipsOnSharedStamp ==
    (UntrackedCall /\ gcfg.lost_hand_policy = "toggle") =>
        LET flipped == gate.state # gpre.state
        IN  /\ flipped <=>
                gate._last_time - StampedAt(gpre.stamped) > gcfg.refractory_ms
            /\ gate.t_last = StampedAt(ghist.stamped)
            /\ (flipped /\ gpre.last_flip # None) =>
                   gate._last_time - gpre.last_flip[1] > gcfg.refractory_ms

\* The second flip within one run of untracked evaluations.
C37_Witness ==
    /\ UntrackedCall /\ gcfg.lost_hand_policy = "toggle"
    /\ gcfg.refractory_ms > 0
    /\ frames = lost_run /\ lost_run >= 2
    /\ gate.state # gpre.state
    /\ gpre.last_flip # None


-----------------------------------------------------------------------------
(* Claims about a gate whose feature is missing or raises.  lcall holds the  *)
(* latest getState: what the feature did, and the gate at its entry.         *)

LostCalled == frames > 0
\* The latest evaluation found the feature missing or raising.
FeatureFailed == LostCalled /\ (lcfg.input_feature = None \/ lcall.outcome.raises)
\* The actuator calls of the binding behind the gate in the latest update.
BehindCalls == IF lcfg.binding = "event" THEN calls ELSE dcalls

\* C38: an evaluation of a gate whose input feature is missing or raises does
\* not raise, is untracked, and applies the lost-hand policy; under policy
\* "release" or "hold" a gate whose feature has never yielded a value is
\* Closed after every evaluation, and the binding behind it makes no
\* actuator call.
C38_FailedFeatureIsLostHand ==
    /\ FeatureFailed =>
           /\ ~lcall.raised /\ ~dupd.raised
           /\ ~gate._last_tracked /\ gate._last_value = None
           /\ gret = gate.state
           /\ gcfg.lost_hand_policy = "release" =>
                  ~gate.state /\ gate.t_last = lcall.pre.t_last
           /\ gcfg.lost_hand_policy = "hold" =>
                  gate.state = lcall.pre.state /\ gate.t_last = lcall.pre.t_last
           /\ gcfg.lost_hand_policy = "true" =>
                  gate.state /\ gate.t_last = lcall.pre.t_last
           /\ gcfg.lost_hand_policy = "toggle" =>
                  IF gate._last_time - lcall.pre.t_last > gcfg.refractory_ms
                  THEN gate.state # lcall.pre.state /\ gate.t_last = gate._last_time
                  ELSE gate.state = lcall.pre.state /\ gate.t_last = lcall.pre.t_last
    /\ ( /\ LostCalled /\ lcall.always_lost
         /\ gcfg.lost_hand_policy \in {"release", "hold"} ) =>
           /\ ~gate.state
           /\ BehindCalls = << >>
           /\ lcfg.binding = "event" => ~binding.prev_state /\ fired = << >>

\* An Event binding whose feature is beyond its trigger threshold, behind a
\* "hold" gate whose feature raised in each of three updates: no call.
C38_Witness ==
    /\ frames = MaxLostUpdates /\ lcall.always_lost
    /\ lcfg.input_feature # None /\ lcall.outcome.raises
    /\ gcfg.lost_hand_policy = "hold"
    /\ lcfg.binding = "event"
    /\ binding._last_value = Some(60)
    /\ ~gate.state /\ calls = << >>

=============================================================================
